---- MODULE Spec2Model ----
(***************************************************************************)
(* Segment-overlap detection and ranked summary of run-congestion.         *)
(*                                                                         *)
(* Units.  Distances are whole ticks of 0.1 km, times are whole tenths of  *)
(* a minute, so a pace in minutes per km is the same number in tenths of   *)
(* a minute per tick and arrival = start + pace * km stays exact.  The     *)
(* tolerance time_window_secs is in seconds: the code's test               *)
(* minutes * 60 <= secs reads tenths * 60 <= secs * 10 here.               *)
(***************************************************************************)
EXTENDS Integers, Sequences, FiniteSets, TLC

\* ------------------------------------------------------------------ bounds
MaxRunners == 2
MaxKm == 10
MaxRows == 3
MaxNow == 3

\* ------------------------------------------------------- program constants
coarse_factor == 5

Paces == {5, 6}
StartsPrev == {0}
StartsCurr == {2, 5, 20, 49}
Windows == {5, 25, 60}
Steps == {1, 2}
SegStarts == {0, 2}
SegEnds == {0, 4, MaxKm}

\* ----------------------------------------------------------------- helpers
Max(a, b) == IF a >= b THEN a ELSE b
Min(a, b) == IF a <= b THEN a ELSE b
Abs(x) == IF x >= 0 THEN x ELSE 0 - x

\* np.arange(lo, hi + eps, step): lo, lo+step, ... up to and including hi
arange(lo, hi, step) ==
  IF hi < lo THEN << >>
  ELSE [i \in 1..(((hi - lo) \div step) + 1) |-> lo + (i - 1) * step]

\* df[df['event'] == ev]: the rows of one event, in table order
EventRows(df, ev) ==
  LET keep(r) == r.event = ev IN SelectSeq(df, keep)

\* start + pace * km
Arrival(start, pace, km) == start + pace * km

\* mutant of IsHit: the signed difference, abs() forgotten
IsHitSigned(tp, tc, time_window_secs) == (tp - tc) * 60 <= time_window_secs * 10

\* |t_prev - t_curr| * 60 <= time_window_secs
IsHit(tp, tc, time_window_secs) == Abs(tp - tc) * 60 <= time_window_secs * 10

\* index pairs (pi, ci) of an n x m matrix in row-major order (argwhere / nonzero)
RowMajor(n, m) ==
  [k \in 1..(n * m) |-> <<((k - 1) \div m) + 1, ((k - 1) % m) + 1>>]

\* the hits of one km: index pairs within tolerance, row-major
HitsAt(prev_df, curr_df, sp, sc, km, w) ==
  LET hit(pc) == IsHit(Arrival(sp, prev_df[pc[1]].pace, km),
                       Arrival(sc, curr_df[pc[2]].pace, km), w)
  IN SelectSeq(RowMajor(Len(prev_df), Len(curr_df)), hit)

\* event time of a hit: min(time_prev, time_curr)
EventTime(prev_df, curr_df, sp, sc, km, pc) ==
  Min(Arrival(sp, prev_df[pc[1]].pace, km), Arrival(sc, curr_df[pc[2]].pace, km))

\* np.argmin over the hits' event times: the first position of the minimum
ArgMin(prev_df, curr_df, sp, sc, km, hits) ==
  CHOOSE k \in 1..Len(hits) :
    \A j \in 1..Len(hits) :
      LET ek == EventTime(prev_df, curr_df, sp, sc, km, hits[k])
          ej == EventTime(prev_df, curr_df, sp, sc, km, hits[j])
      IN ek < ej \/ (ek = ej /\ k <= j)

\* mutant of Replaces: an equal event time replaces the stored candidate
ReplacesOnEqualTime(first_overlap, t_hit, km) ==
  \/ first_overlap = << >>
  \/ t_hit <= first_overlap[1]

\* first_overlap replacement test; None is << >>
Replaces(first_overlap, t_hit, km) ==
  \/ first_overlap = << >>
  \/ t_hit < first_overlap[1]
  \/ (t_hit = first_overlap[1] /\ km < first_overlap[2])

None == [is_none |-> TRUE]

\* ------------------------------------------- bridge._detect_segment_overlap
\* mask[i, j]: prev_end[i] >= curr_start[j] and curr_end[j] >= prev_start[i]
IntervalMask(pr, cr, sp, sc, seg_start_km, seg_end_km) ==
  /\ Arrival(sp, pr.pace, seg_end_km) >= Arrival(sc, cr.pace, seg_start_km)
  /\ Arrival(sc, cr.pace, seg_end_km) >= Arrival(sp, pr.pace, seg_start_km)

\* prev_df.loc[mask.any(axis=1)]
PreFilterPrev(prev_df, curr_df, sp, sc, s, e) ==
  LET keep(pr) == \E j \in 1..Len(curr_df) : IntervalMask(pr, curr_df[j], sp, sc, s, e)
  IN SelectSeq(prev_df, keep)

\* curr_df.loc[mask.any(axis=0)]
PreFilterCurr(prev_df, curr_df, sp, sc, s, e) ==
  LET keep(cr) == \E i \in 1..Len(prev_df) : IntervalMask(prev_df[i], cr, sp, sc, s, e)
  IN SelectSeq(curr_df, keep)

\* the coarse km at which some pair is within tolerance
Candidates(prev_df, curr_df, sp, sc, s, e, w, coarse_step) ==
  LET any(km) == HitsAt(prev_df, curr_df, sp, sc, km, w) # << >>
  IN SelectSeq(arange(s, e, coarse_step), any)

\* mutant of CandidateRanges: the interval starts after the candidate km
CandidateRangesAfter(candidates, s, e, coarse_step) ==
  [i \in 1..Len(candidates) |->
     <<Min(e, candidates[i] + 1), Min(e, candidates[i] + coarse_step)>>]

\* [km - coarse_step, km + coarse_step] clipped to the segment, per candidate
CandidateRanges(candidates, s, e, coarse_step) ==
  [i \in 1..Len(candidates) |->
     <<Max(s, candidates[i] - coarse_step), Min(e, candidates[i] + coarse_step)>>]

\* tuple order of list.sort()
RangeLE(a, b) == a[1] < b[1] \/ (a[1] = b[1] /\ a[2] <= b[2])

RECURSIVE InsertRange(_, _)
InsertRange(sorted, r) ==
  IF sorted = << >> THEN <<r>>
  ELSE IF RangeLE(sorted[Len(sorted)], r) THEN Append(sorted, r)
  ELSE Append(InsertRange(SubSeq(sorted, 1, Len(sorted) - 1), r), sorted[Len(sorted)])

\* ranges.sort()
RECURSIVE SortRanges(_)
SortRanges(ranges) ==
  IF ranges = << >> THEN << >>
  ELSE InsertRange(SortRanges(SubSeq(ranges, 1, Len(ranges) - 1)), ranges[Len(ranges)])

\* mutant of MergeOne: an overlapping interval replaces the last one instead of extending it
MergeOneReplaces(merged, r) ==
  IF r[1] <= merged[Len(merged)][2]
  THEN [merged EXCEPT ![Len(merged)] = r]
  ELSE Append(merged, r)

\* mutant of MergeOne: every interval opens a new one
MergeOneAppends(merged, r) == Append(merged, r)

\* one step of the merge loop: extend the last interval or open a new one
MergeOne(merged, r) ==
  IF r[1] <= merged[Len(merged)][2]
  THEN [merged EXCEPT ![Len(merged)] = <<merged[Len(merged)][1], Max(merged[Len(merged)][2], r[2])>>]
  ELSE Append(merged, r)

RECURSIVE MergeFrom(_, _, _)
MergeFrom(merged, ranges, i) ==
  IF i > Len(ranges) THEN merged
  ELSE MergeFrom(MergeOne(merged, ranges[i]), ranges, i + 1)

\* merged = [ranges[0]]; for lo, hi in ranges[1:]: ...
MergeRanges(ranges) == MergeFrom(<<ranges[1]>>, ranges, 2)

\* the values of the fine aranges of all merged intervals
RefinedSet(merged, step_km) ==
  UNION { { arange(merged[i][1], merged[i][2], step_km)[k] :
              k \in 1..Len(arange(merged[i][1], merged[i][2], step_km)) } :
          i \in 1..Len(merged) }

RECURSIVE SortedSeq(_)
SortedSeq(S) ==
  IF S = {} THEN << >>
  ELSE LET m == CHOOSE x \in S : \A y \in S : x <= y
       IN <<m>> \o SortedSeq(S \ {m})

\* np.unique(np.concatenate([...])): sorted, each value once
Refined(merged, step_km) == SortedSeq(RefinedSet(merged, step_km))

\* mutant of HitIds: one entry per hit instead of one per distinct runner
HitIdsPerHit(df, hits, side) == { <<k, df[hits[k][side]].runner_id>> : k \in 1..Len(hits) }

\* distinct runner ids on one side of the hits
HitIds(df, hits, side) == { df[hits[k][side]].runner_id : k \in 1..Len(hits) }

\* mutant of FineStep: cumulative_overlap_events counts the km with a hit, not the hits
FineStepCountsKm(acc, prev_df, curr_df, sp, sc, km, w) ==
  LET hits == HitsAt(prev_df, curr_df, sp, sc, km, w)
  IN IF hits = << >> THEN acc
     ELSE [acc EXCEPT !.cumulative_overlap_events = @ + 1,
                      !.unique_pairs = @ \cup
                        { <<prev_df[hits[k][1]].runner_id, curr_df[hits[k][2]].runner_id>> :
                            k \in 1..Len(hits) }]

\* mutant of FineStep: a pair is counted at the first km where it hits only
FineStepCountsPairOnce(acc, prev_df, curr_df, sp, sc, km, w) ==
  LET hits == HitsAt(prev_df, curr_df, sp, sc, km, w)
      mi == ArgMin(prev_df, curr_df, sp, sc, km, hits)
      t_hit == EventTime(prev_df, curr_df, sp, sc, km, hits[mi])
      tot == Cardinality(HitIds(prev_df, hits, 1)) + Cardinality(HitIds(curr_df, hits, 2))
  IN IF hits = << >> THEN acc
     ELSE [ first_overlap |->
              IF Replaces(acc.first_overlap, t_hit, km)
              THEN <<t_hit, km, prev_df[hits[mi][1]].runner_id, curr_df[hits[mi][2]].runner_id>>
              ELSE acc.first_overlap,
            cumulative_overlap_events |-> acc.cumulative_overlap_events + Cardinality(
              { <<prev_df[hits[k][1]].runner_id, curr_df[hits[k][2]].runner_id>> : k \in 1..Len(hits) }
                \ acc.unique_pairs),
            peak_congestion |-> IF tot > acc.peak_congestion THEN tot ELSE acc.peak_congestion,
            unique_pairs |-> acc.unique_pairs \cup
              { <<prev_df[hits[k][1]].runner_id, curr_df[hits[k][2]].runner_id>> : k \in 1..Len(hits) } ]

\* the body of the fine loop for one km
FineStep(acc, prev_df, curr_df, sp, sc, km, w) ==
  LET hits == HitsAt(prev_df, curr_df, sp, sc, km, w)
      mi == ArgMin(prev_df, curr_df, sp, sc, km, hits)
      t_hit == EventTime(prev_df, curr_df, sp, sc, km, hits[mi])
      tot == Cardinality(HitIds(prev_df, hits, 1)) + Cardinality(HitIds(curr_df, hits, 2))
  IN IF hits = << >> THEN acc
     ELSE [ first_overlap |->
              IF Replaces(acc.first_overlap, t_hit, km)
              THEN <<t_hit, km, prev_df[hits[mi][1]].runner_id, curr_df[hits[mi][2]].runner_id>>
              ELSE acc.first_overlap,
            cumulative_overlap_events |-> acc.cumulative_overlap_events + Len(hits),
            peak_congestion |-> IF tot > acc.peak_congestion THEN tot ELSE acc.peak_congestion,
            unique_pairs |-> acc.unique_pairs \cup
              { <<prev_df[hits[k][1]].runner_id, curr_df[hits[k][2]].runner_id>> : k \in 1..Len(hits) } ]

RECURSIVE FineScan(_, _, _, _, _, _, _, _)
FineScan(acc, kms, idx, prev_df, curr_df, sp, sc, w) ==
  IF idx > Len(kms) THEN acc
  ELSE FineScan(FineStep(acc, prev_df, curr_df, sp, sc, kms[idx], w),
                kms, idx + 1, prev_df, curr_df, sp, sc, w)

ScanInit ==
  [first_overlap |-> << >>, cumulative_overlap_events |-> 0,
   peak_congestion |-> 0, unique_pairs |-> {}]

\* the result dict
Result(s, e, total_prev, total_curr, acc) ==
  [is_none |-> FALSE, segment_start |-> s, segment_end |-> e,
   total_prev |-> total_prev, total_curr |-> total_curr,
   first_overlap |-> acc.first_overlap,
   cumulative_overlap_events |-> acc.cumulative_overlap_events,
   peak_congestion |-> acc.peak_congestion,
   unique_overlapping_pairs |-> Cardinality(acc.unique_pairs)]

\* bridge._detect_segment_overlap after the event filter and the pre-filter
BridgeScan(prev_df, curr_df, sp, sc, s, e, w, step_km, cf) ==
  LET coarse_step == step_km * cf
      candidates == Candidates(prev_df, curr_df, sp, sc, s, e, w, coarse_step)
      merged == MergeRanges(SortRanges(CandidateRanges(candidates, s, e, coarse_step)))
      refined == Refined(merged, step_km)
  IN IF candidates = << >>
     THEN Result(s, e, Len(prev_df), Len(curr_df), ScanInit)
     ELSE Result(s, e, Len(prev_df), Len(curr_df),
                 FineScan(ScanInit, refined, 1, prev_df, curr_df, sp, sc, w))

BridgeDetect(df, prev_event, curr_event, sp, sc, s, e, w, step_km, cf) ==
  LET prev_all == EventRows(df, prev_event)
      curr_all == EventRows(df, curr_event)
      prev_df == PreFilterPrev(prev_all, curr_all, sp, sc, s, e)
      curr_df == PreFilterCurr(prev_all, curr_all, sp, sc, s, e)
  IN IF prev_all = << >> \/ curr_all = << >> THEN None
     ELSE IF prev_df = << >> \/ curr_df = << >> THEN None
     ELSE BridgeScan(prev_df, curr_df, sp, sc, s, e, w, step_km, cf)

\* ------------------------------------ detect_overlap.detect_segment_overlap
\* mutant of BruteStep: a step that equals the stored peak replaces it
BruteStepLastPeak(acc, prev_df, curr_df, sp, sc, km, w) ==
  LET hits == HitsAt(prev_df, curr_df, sp, sc, km, w)
      mi == ArgMin(prev_df, curr_df, sp, sc, km, hits)
      event_time == EventTime(prev_df, curr_df, sp, sc, km, hits[mi])
      overlapping_prev == HitIds(prev_df, hits, 1)
      overlapping_curr == HitIds(curr_df, hits, 2)
      total == Cardinality(overlapping_prev) + Cardinality(overlapping_curr)
  IN [ first_overlap |->
         IF hits # << >> /\ Replaces(acc.first_overlap, event_time, km)
         THEN <<event_time, km, prev_df[hits[mi][1]].runner_id, curr_df[hits[mi][2]].runner_id>>
         ELSE acc.first_overlap,
       cumulative_overlap_events |-> acc.cumulative_overlap_events + Len(hits),
       peak_congestion |-> IF total >= acc.peak_congestion THEN total ELSE acc.peak_congestion,
       peak_prev |-> IF total >= acc.peak_congestion THEN overlapping_prev ELSE acc.peak_prev,
       peak_curr |-> IF total >= acc.peak_congestion THEN overlapping_curr ELSE acc.peak_curr,
       unique_pairs |-> acc.unique_pairs \cup
         { <<prev_df[hits[k][1]].runner_id, curr_df[hits[k][2]].runner_id>> : k \in 1..Len(hits) } ]

\* the body of the brute-force loop for one step (peak id sets kept)
BruteStep(acc, prev_df, curr_df, sp, sc, km, w) ==
  LET hits == HitsAt(prev_df, curr_df, sp, sc, km, w)
      mi == ArgMin(prev_df, curr_df, sp, sc, km, hits)
      event_time == EventTime(prev_df, curr_df, sp, sc, km, hits[mi])
      overlapping_prev == HitIds(prev_df, hits, 1)
      overlapping_curr == HitIds(curr_df, hits, 2)
      total == Cardinality(overlapping_prev) + Cardinality(overlapping_curr)
  IN [ first_overlap |->
         IF hits # << >> /\ Replaces(acc.first_overlap, event_time, km)
         THEN <<event_time, km, prev_df[hits[mi][1]].runner_id, curr_df[hits[mi][2]].runner_id>>
         ELSE acc.first_overlap,
       cumulative_overlap_events |-> acc.cumulative_overlap_events + Len(hits),
       peak_congestion |-> IF total > acc.peak_congestion THEN total ELSE acc.peak_congestion,
       peak_prev |-> IF total > acc.peak_congestion THEN overlapping_prev ELSE acc.peak_prev,
       peak_curr |-> IF total > acc.peak_congestion THEN overlapping_curr ELSE acc.peak_curr,
       unique_pairs |-> acc.unique_pairs \cup
         { <<prev_df[hits[k][1]].runner_id, curr_df[hits[k][2]].runner_id>> : k \in 1..Len(hits) } ]

RECURSIVE BruteLoop(_, _, _, _, _, _, _, _)
BruteLoop(acc, steps, si, prev_df, curr_df, sp, sc, w) ==
  IF si > Len(steps) THEN acc
  ELSE BruteLoop(BruteStep(acc, prev_df, curr_df, sp, sc, steps[si], w),
                 steps, si + 1, prev_df, curr_df, sp, sc, w)

BruteDetect(df, prev_event, curr_event, sp, sc, s, e, w, step_km) ==
  LET prev_df == EventRows(df, prev_event)
      curr_df == EventRows(df, curr_event)
      acc == BruteLoop(ScanInit @@ [peak_prev |-> {}, peak_curr |-> {}],
                       arange(s, e, step_km), 1, prev_df, curr_df, sp, sc, w)
  IN IF prev_df = << >> \/ curr_df = << >> THEN None
     ELSE Result(s, e, Len(prev_df), Len(curr_df), acc)
            @@ [peak_prev_at_peak |-> acc.peak_prev, peak_curr_at_peak |-> acc.peak_curr]

\* ------------------------------------------ engine._detect_segment_overlap
\* diff <= tol_min, tol_min = time_window_secs / 60.0
EngineIsHit(ta, tb, time_window_secs) == Abs(ta - tb) * 60 <= time_window_secs * 10

EngineHitsAt(a_df, b_df, sa, sb, km, w) ==
  LET hit(ab) == EngineIsHit(Arrival(sa, a_df[ab[1]].pace, km),
                             Arrival(sb, b_df[ab[2]].pace, km), w)
  IN SelectSeq(RowMajor(Len(a_df), Len(b_df)), hit)

\* np.unique(a_idx).size / np.unique(b_idx).size
DistinctIdx(hits, side) == Cardinality({ hits[k][side] : k \in 1..Len(hits) })

\* the body of the engine loop for one km
EngineStep(acc, a_df, b_df, sa, sb, km, w) ==
  LET hits == EngineHitsAt(a_df, b_df, sa, sb, km, w)
      min_pos == ArgMin(a_df, b_df, sa, sb, km, hits)
      candidate_time == EventTime(a_df, b_df, sa, sb, km, hits[min_pos])
      a_distinct == DistinctIdx(hits, 1)
      b_distinct == DistinctIdx(hits, 2)
      total_here == a_distinct + b_distinct
  IN IF hits = << >> THEN acc
     ELSE [ first_overlap |->
              IF Replaces(acc.first_overlap, candidate_time, km)
              THEN <<candidate_time, km, a_df[hits[min_pos][1]].runner_id,
                     b_df[hits[min_pos][2]].runner_id>>
              ELSE acc.first_overlap,
            cumulative |-> acc.cumulative + Len(hits),
            peak_cong |-> IF total_here > acc.peak_cong THEN total_here ELSE acc.peak_cong,
            peak_a |-> IF total_here > acc.peak_cong THEN a_distinct ELSE acc.peak_a,
            peak_b |-> IF total_here > acc.peak_cong THEN b_distinct ELSE acc.peak_b,
            seen_pairs |-> acc.seen_pairs \cup
              { <<a_df[hits[k][1]].runner_id, b_df[hits[k][2]].runner_id>> : k \in 1..Len(hits) } ]

RECURSIVE EngineLoop(_, _, _, _, _, _, _, _)
EngineLoop(acc, steps, i, a_df, b_df, sa, sb, w) ==
  IF i > Len(steps) THEN acc
  ELSE EngineLoop(EngineStep(acc, a_df, b_df, sa, sb, steps[i], w),
                  steps, i + 1, a_df, b_df, sa, sb, w)

EngineInit ==
  [first_overlap |-> << >>, cumulative |-> 0, peak_cong |-> 0,
   peak_a |-> 0, peak_b |-> 0, seen_pairs |-> {}]

\* returns (first_overlap, cumulative, peak_cong, peak_a, peak_b, len(seen_pairs))
EngineDetect(a_df, b_df, sa, sb, s, e, w, step_km) ==
  LET acc == IF a_df = << >> \/ b_df = << >> THEN EngineInit
             ELSE EngineLoop(EngineInit, arange(s, e, step_km), 1, a_df, b_df, sa, sb, w)
  IN [first_overlap |-> acc.first_overlap, cumulative |-> acc.cumulative,
      peak_cong |-> acc.peak_cong, peak_a |-> acc.peak_a, peak_b |-> acc.peak_b,
      unique_pairs |-> Cardinality(acc.seen_pairs)]

\* ----------------------------------------------------------------- state
VARIABLES
  df,            \* pace table: sequence of [event, runner_id, pace]
  start_prev,    \* start time of the prev event
  start_curr,    \* start time of the curr event
  seg_start_km,
  seg_end_km,
  time_window_secs,
  step_km,
  called,        \* which detectors have returned
  res_bridge,    \* result of bridge._detect_segment_overlap
  res_brute,     \* result of detect_overlap.detect_segment_overlap
  res_engine,    \* result of engine._detect_segment_overlap
  overlaps,      \* overlaps table: sequence of [event, overlapswith, start, end]
  start_times,   \* event -> start time, for the events that have one
  rank_by,
  pc,            \* position of analyze_overlaps: "load", "run", "done"
  tasks,         \* the submitted _process_segment argument tuples
  pending,       \* positions in tasks whose future has not been yielded yet
  records,       \* the non-empty records, in as_completed order
  summary,       \* summary_df as the positions in records, in ranked order
  engine_out,    \* what engine.analyze_overlaps returned or raised
  pace_columns,  \* header of the pace CSV as read
  ov_columns,    \* header of the overlaps CSV as read
  verbose,
  lines,         \* the per-segment line blocks, in as_completed order
  detections,    \* task position -> number of _detect_segment_overlap calls made for it
  bridge_out,    \* what bridge.analyze_overlaps returned or raised
  density_in,    \* arguments of compute_density_steps: pace_df, seg, start_times_min, step_km, window_s
  density_steps, \* the DensityStep list
  density_roll,  \* the SegmentRollup
  index_args,    \* arguments of _congestion_index
  index_out,     \* its return value, in tenths
  dpc,           \* position of the density pipeline
  api_req,       \* request -> the JSON body of the POST
  handler,       \* request -> the locals of its api/overlap.py app call
  tmp_file,      \* the rows in /tmp/overlaps.filtered.csv
  capacity,      \* LRUCacheTTL.capacity
  ttl,           \* LRUCacheTTL.ttl
  store,         \* LRUCacheTTL._store: the entries [key, expires_at, value], oldest first
  now,           \* time.time()
  history        \* what the calls made so far have done: see InitCache

detVars == <<df, start_prev, start_curr, seg_start_km, seg_end_km, time_window_secs,
             step_km, called, res_bridge, res_brute, res_engine>>
sumVars == <<overlaps, start_times, rank_by, pc, tasks, pending, records, summary, engine_out,
             pace_columns, ov_columns, verbose, lines, detections, bridge_out>>
densVars == <<density_in, density_steps, density_roll, index_args, index_out, dpc>>
apiVars == <<api_req, handler, tmp_file>>
cacheVars == <<capacity, ttl, store, now, history>>
vars == <<detVars, sumVars, densVars, apiVars, cacheVars>>

prev_event == "A"
curr_event == "B"

\* an analyze_overlaps call that has not returned yet
NotReturned == [raised |-> "pending"]

\* no HTTP request is being handled
CacheIdle ==
  /\ capacity = 1
  /\ ttl = 1
  /\ store = << >>
  /\ now = 0
  /\ history = << >>

ApiIdle ==
  /\ api_req = << >>
  /\ handler = << >>
  /\ tmp_file = [state |-> "absent", rows |-> << >>]

\* the density pipeline is not running
DensityIdle ==
  /\ density_in = << >>
  /\ density_steps = << >>
  /\ density_roll = << >>
  /\ index_args = << >>
  /\ index_out = 0
  /\ dpc = "idle"

\* runner ids are unique within an event, not across events
EventTable(ev, paces) ==
  [i \in 1..Len(paces) |-> [event |-> ev, runner_id |-> i, pace |-> paces[i]]]

PaceSeqs == UNION { [1..n -> Paces] : n \in 0..MaxRunners }
Tables == { EventTable(prev_event, ps) \o EventTable(curr_event, cs) : ps \in PaceSeqs, cs \in PaceSeqs }
Segments == { se \in SegStarts \X SegEnds : se[1] <= se[2] }

InitDetect ==
  /\ df \in Tables
  /\ start_prev \in StartsPrev
  /\ start_curr \in StartsCurr
  /\ \E se \in Segments : seg_start_km = se[1] /\ seg_end_km = se[2]
  /\ time_window_secs \in Windows
  /\ step_km \in Steps
  /\ called = {}
  /\ res_bridge = None
  /\ res_brute = None
  /\ res_engine = EngineDetect(<< >>, << >>, 0, 0, 0, 0, 0, 1)
  /\ overlaps = << >>
  /\ start_times = << >>
  /\ rank_by = "peak_ratio"
  /\ pc = "detect"
  /\ tasks = << >>
  /\ pending = {}
  /\ records = << >>
  /\ summary = << >>
  /\ engine_out = NotReturned
  /\ pace_columns = {}
  /\ ov_columns = {}
  /\ verbose = FALSE
  /\ lines = << >>
  /\ detections = << >>
  /\ bridge_out = NotReturned
  /\ DensityIdle
  /\ ApiIdle
  /\ CacheIdle

inputs == <<df, start_prev, start_curr, seg_start_km, seg_end_km, time_window_secs, step_km>>

\* the three detectors are run one after the other on the same inputs
CallBridge ==
  /\ called = {}
  /\ res_bridge' = BridgeDetect(df, prev_event, curr_event, start_prev, start_curr,
                                seg_start_km, seg_end_km, time_window_secs, step_km,
                                coarse_factor)
  /\ called' = called \cup {"bridge"}
  /\ UNCHANGED <<cacheVars, inputs, res_brute, res_engine, sumVars, densVars, apiVars>>

CallBrute ==
  /\ called = {"bridge"}
  /\ res_brute' = BruteDetect(df, prev_event, curr_event, start_prev, start_curr,
                              seg_start_km, seg_end_km, time_window_secs, step_km)
  /\ called' = called \cup {"brute"}
  /\ UNCHANGED <<cacheVars, inputs, res_bridge, res_engine, sumVars, densVars, apiVars>>

CallEngine ==
  /\ called = {"bridge", "brute"}
  /\ res_engine' = EngineDetect(EventRows(df, prev_event), EventRows(df, curr_event),
                                start_prev, start_curr, seg_start_km, seg_end_km,
                                time_window_secs, step_km)
  /\ called' = called \cup {"engine"}
  /\ UNCHANGED <<cacheVars, inputs, res_bridge, res_brute, sumVars, densVars, apiVars>>

Next ==
  \/ CallBridge
  \/ CallBrute
  \/ CallEngine

Spec == InitDetect /\ [][Next]_vars

\* ------------------------------------------------------- detector claims
prev_rows == EventRows(df, prev_event)
curr_rows == EventRows(df, curr_event)

\* arrival difference of a pair at km (prev minus curr)
Diff(pr, cr, km) == Arrival(start_prev, pr.pace, km) - Arrival(start_curr, cr.pace, km)

\* the difference is linear in km, so a pair is out of tolerance on the whole of
\* [seg_start_km, seg_end_km] iff it is out of tolerance, on the same side, at both ends
NeverWithin(pr, cr, w) ==
  \/ /\ Diff(pr, cr, seg_start_km) * 60 > w * 10
     /\ Diff(pr, cr, seg_end_km) * 60 > w * 10
  \/ /\ Diff(pr, cr, seg_start_km) * 60 < 0 - w * 10
     /\ Diff(pr, cr, seg_end_km) * 60 < 0 - w * 10

NoPairWithin ==
  \A i \in 1..Len(prev_rows), j \in 1..Len(curr_rows) :
    NeverWithin(prev_rows[i], curr_rows[j], time_window_secs)

\* the km a full-resolution scan of the segment samples
SampledKms == { arange(seg_start_km, seg_end_km, step_km)[k] :
                  k \in 1..Len(arange(seg_start_km, seg_end_km, step_km)) }

NoHitSampled ==
  \A km \in SampledKms :
    \A i \in 1..Len(prev_rows), j \in 1..Len(curr_rows) :
      Abs(Diff(prev_rows[i], curr_rows[j], km)) * 60 > time_window_secs * 10

ZeroResult(r) ==
  /\ ~r.is_none
  /\ r.first_overlap = << >>
  /\ r.cumulative_overlap_events = 0
  /\ r.peak_congestion = 0
  /\ r.unique_overlapping_pairs = 0

\* C1: whenever the coarse-to-fine detector and the brute-force scan both return a
\* result for the same inputs (coarse_factor = 5), first_overlap, peak_congestion
\* and unique_overlapping_pairs agree.
C1_CoarseFineEqualsBrute ==
  ({"bridge", "brute"} \subseteq called /\ ~res_bridge.is_none /\ ~res_brute.is_none) =>
    /\ res_bridge.first_overlap = res_brute.first_overlap
    /\ res_bridge.peak_congestion = res_brute.peak_congestion
    /\ res_bridge.unique_overlapping_pairs = res_brute.unique_overlapping_pairs

\* C2: if no pair of runners is within tolerance anywhere on the segment, each
\* detector reports first_overlap None and cumulative_overlap_events 0.
C2_NoCrossingNoOverlap ==
  (NoPairWithin /\ prev_rows # << >> /\ curr_rows # << >>) =>
    /\ "bridge" \in called =>
         /\ ~res_bridge.is_none
         /\ res_bridge.first_overlap = << >>
         /\ res_bridge.cumulative_overlap_events = 0
    /\ "brute" \in called =>
         /\ ~res_brute.is_none
         /\ res_brute.first_overlap = << >>
         /\ res_brute.cumulative_overlap_events = 0

\* the scenario of C3: 2 runners in A (pace 5, start 0), 2 in B (pace 6, start 4.9),
\* segment [0, 1] km, step 0.1 km, window 60 s
Scenario49 ==
  /\ df = EventTable(prev_event, <<5, 5>>) \o EventTable(curr_event, <<6, 6>>)
  /\ start_prev = 0 /\ start_curr = 49
  /\ seg_start_km = 0 /\ seg_end_km = 10
  /\ step_km = 1 /\ time_window_secs = 60

\* C3 as stated: in the 4.9-minute scenario the detector returns a first_overlap
\* and peak_congestion >= 2.
C3_ScenarioOverlaps ==
  Scenario49 =>
    /\ "bridge" \in called =>
         (~res_bridge.is_none /\ res_bridge.first_overlap # << >> /\ res_bridge.peak_congestion >= 2)
    /\ "brute" \in called =>
         (~res_brute.is_none /\ res_brute.first_overlap # << >> /\ res_brute.peak_congestion >= 2)

\* C3 amended: in the 4.9-minute scenario every pair is 4.9 + km minutes apart, so
\* the detector returns the zero-result: first_overlap None and peak_congestion 0.
C3_ScenarioZeroResult ==
  Scenario49 =>
    /\ "bridge" \in called => ZeroResult(res_bridge)
    /\ "brute" \in called => ZeroResult(res_brute)

C3_Witness ==
  /\ Scenario49
  /\ {"bridge", "brute"} \subseteq called
  /\ res_bridge.total_prev = 2 /\ res_bridge.total_curr = 2

\* C4: in every non-None result unique_overlapping_pairs <= cumulative_overlap_events.
C4_UniqueLeCumulative ==
  /\ ("bridge" \in called /\ ~res_bridge.is_none) =>
       res_bridge.unique_overlapping_pairs <= res_bridge.cumulative_overlap_events
  /\ ("brute" \in called /\ ~res_brute.is_none) =>
       res_brute.unique_overlapping_pairs <= res_brute.cumulative_overlap_events
  /\ "engine" \in called => res_engine.unique_pairs <= res_engine.cumulative

C4_Witness ==
  /\ {"bridge", "brute", "engine"} \subseteq called
  /\ ~res_bridge.is_none
  /\ res_bridge.unique_overlapping_pairs >= 2
  /\ res_bridge.unique_overlapping_pairs < res_bridge.cumulative_overlap_events
  /\ res_engine.unique_pairs >= 2

\* C5: in every non-None result peak_congestion <= total_prev + total_curr of that result.
C5_PeakLeTotals ==
  /\ ("bridge" \in called /\ ~res_bridge.is_none) =>
       res_bridge.peak_congestion <= res_bridge.total_prev + res_bridge.total_curr
  /\ ("brute" \in called /\ ~res_brute.is_none) =>
       res_brute.peak_congestion <= res_brute.total_prev + res_brute.total_curr

C5_Witness ==
  /\ {"bridge", "brute"} \subseteq called
  /\ ~res_bridge.is_none
  /\ res_bridge.total_prev = 2 /\ res_bridge.total_curr = 2
  /\ res_bridge.peak_congestion = 4
  /\ res_bridge.cumulative_overlap_events > 4

\* C6: with everything else fixed, a window w2 >= time_window_secs gives a
\* cumulative_overlap_events at least as large, for both detectors.
C6_WindowMonotone ==
  \A w2 \in Windows :
    w2 >= time_window_secs =>
      /\ ("bridge" \in called /\ ~res_bridge.is_none) =>
           LET wide == BridgeDetect(df, prev_event, curr_event, start_prev, start_curr,
                                    seg_start_km, seg_end_km, w2, step_km, coarse_factor)
           IN ~wide.is_none /\
              res_bridge.cumulative_overlap_events <= wide.cumulative_overlap_events
      /\ ("brute" \in called /\ ~res_brute.is_none) =>
           LET wide == BruteDetect(df, prev_event, curr_event, start_prev, start_curr,
                                   seg_start_km, seg_end_km, w2, step_km)
           IN ~wide.is_none /\
              res_brute.cumulative_overlap_events <= wide.cumulative_overlap_events

\* a narrow window whose coarse scan finds candidates, and a wider window that
\* merges more ranges and counts strictly more
C6_Witness ==
  /\ "bridge" \in called /\ ~res_bridge.is_none
  /\ res_bridge.cumulative_overlap_events >= 1
  /\ \E w2 \in Windows :
       /\ w2 > time_window_secs
       /\ BridgeDetect(df, prev_event, curr_event, start_prev, start_curr,
                       seg_start_km, seg_end_km, w2, step_km, coarse_factor)
            .cumulative_overlap_events > res_bridge.cumulative_overlap_events

\* C7: with runners in both events and no pair within tolerance at any sampled km,
\* the detector returns the zero-result, and it returns None only when an event
\* has no runners.
C7_ZeroResultNotNone ==
  /\ ("bridge" \in called /\ prev_rows # << >> /\ curr_rows # << >> /\ NoHitSampled) =>
       ZeroResult(res_bridge)
  /\ ("brute" \in called /\ prev_rows # << >> /\ curr_rows # << >> /\ NoHitSampled) =>
       ZeroResult(res_brute)
  /\ ("bridge" \in called /\ res_bridge.is_none) => (prev_rows = << >> \/ curr_rows = << >>)
  /\ ("brute" \in called /\ res_brute.is_none) => (prev_rows = << >> \/ curr_rows = << >>)

\* C8: in every non-None result total_prev and total_curr are the numbers of
\* pace-table runners of the prev and the curr event.
C8_TotalsArePopulations ==
  /\ ("bridge" \in called /\ ~res_bridge.is_none) =>
       (res_bridge.total_prev = Len(prev_rows) /\ res_bridge.total_curr = Len(curr_rows))
  /\ ("brute" \in called /\ ~res_brute.is_none) =>
       (res_brute.total_prev = Len(prev_rows) /\ res_brute.total_curr = Len(curr_rows))

\* ------------------------------------------------ bridge.analyze_overlaps
Events == {"A", "B", "C"}

\* order of the event names as strings (groupby sorts its keys)
EventRank(ev) == CASE ev = "A" -> 1 [] ev = "B" -> 2 [] OTHER -> 3

SumTables ==
  { EventTable("A", <<5, 6>>) \o EventTable("B", <<5>>) \o EventTable("C", <<5, 5>>),
    EventTable("A", <<5, 6>>) \o EventTable("B", <<5>>) }

SumStartTimes ==
  { ("A" :> 0) @@ ("B" :> 2) @@ ("C" :> 0),
    ("A" :> 0) @@ ("B" :> 5),
    ("A" :> 0) @@ ("B" :> 5) @@ ("C" :> 0) }

\* the pace table and the start times of one run: with the early start of B event C
\* has runners and a start time, with the late start of B exactly one of the two
SumWorlds ==
  { wd \in SumTables \X SumStartTimes :
      /\ "C" \in DOMAIN wd[2] \/ EventRows(wd[1], "C") # << >>
      /\ ("C" \in DOMAIN wd[2] /\ EventRows(wd[1], "C") # << >>) <=> (wd[2]["B"] = 2) }

OverlapRow(ev, ow, s, e) == [event |-> ev, overlapswith |-> ow, start |-> s, end |-> e]

CandidateRows ==
  { OverlapRow("A", "B", 0, 4), OverlapRow("A", "B", 0, MaxKm), OverlapRow("A", "C", 5, MaxKm) }

OverlapTables == UNION { [1..n -> CandidateRows] : n \in 0..MaxRows }

\* groupby key order: (event, overlapswith)
GroupLE(a, b) ==
  \/ EventRank(a.event) < EventRank(b.event)
  \/ (a.event = b.event /\ EventRank(a.overlapswith) <= EventRank(b.overlapswith))

RECURSIVE InsertRow(_, _)
InsertRow(sorted, r) ==
  IF sorted = << >> THEN <<r>>
  ELSE IF GroupLE(sorted[Len(sorted)], r) THEN Append(sorted, r)
  ELSE Append(InsertRow(SubSeq(sorted, 1, Len(sorted) - 1), r), sorted[Len(sorted)])

\* overlaps.groupby(['event','overlapswith']): groups in key order, rows of a group in table order
RECURSIVE GroupBy(_)
GroupBy(rows) ==
  IF rows = << >> THEN << >>
  ELSE InsertRow(GroupBy(SubSeq(rows, 1, Len(rows) - 1)), rows[Len(rows)])

\* the task tuples: rows of the groups whose two events both have a start time
BuildTaskList(rows, st) ==
  LET known(r) == r.event \in DOMAIN st /\ r.overlapswith \in DOMAIN st
      kept == SelectSeq(GroupBy(rows), known)
  IN [i \in 1..Len(kept) |->
        [prev_event |-> kept[i].event, curr_event |-> kept[i].overlapswith,
         start_prev |-> st[kept[i].event], start_curr |-> st[kept[i].overlapswith],
         seg_start |-> kept[i].start, seg_end |-> kept[i].end]]

EmptyRecord == [is_empty |-> TRUE]

\* mutant of ProcessSegment: a zero-result is dropped like None
ProcessSegmentDropsZero(pace, t, w, step) ==
  LET res == BridgeDetect(pace, t.prev_event, t.curr_event, t.start_prev, t.start_curr,
                          t.seg_start, t.seg_end, w, step, coarse_factor)
  IN IF res.is_none \/ res.cumulative_overlap_events = 0 THEN EmptyRecord
     ELSE [is_empty |-> FALSE,
           prev_event |-> t.prev_event, curr_event |-> t.curr_event,
           seg_start |-> t.seg_start, seg_end |-> t.seg_end,
           intensity |-> res.cumulative_overlap_events,
           distinct_pairs |-> res.unique_overlapping_pairs,
           peak_congestion |-> res.peak_congestion,
           peak_congestion_ratio |-> <<res.peak_congestion, res.total_prev + res.total_curr>>,
           total_prev |-> res.total_prev, total_curr |-> res.total_curr,
           first_overlap |-> res.first_overlap]

\* bridge._process_segment: the record of one task, {} when detection returned None;
\* peak_congestion_ratio = peak_congestion / (total_prev + total_curr) kept as <<num, den>>
ProcessSegment(pace, t, w, step) ==
  LET res == BridgeDetect(pace, t.prev_event, t.curr_event, t.start_prev, t.start_curr,
                          t.seg_start, t.seg_end, w, step, coarse_factor)
  IN IF res.is_none THEN EmptyRecord
     ELSE [is_empty |-> FALSE,
           prev_event |-> t.prev_event, curr_event |-> t.curr_event,
           seg_start |-> t.seg_start, seg_end |-> t.seg_end,
           intensity |-> res.cumulative_overlap_events,
           distinct_pairs |-> res.unique_overlapping_pairs,
           peak_congestion |-> res.peak_congestion,
           peak_congestion_ratio |-> <<res.peak_congestion, res.total_prev + res.total_curr>>,
           total_prev |-> res.total_prev, total_curr |-> res.total_curr,
           first_overlap |-> res.first_overlap]

\* mutant of SortKey: rank_by is ignored, the ratio is always the key
SortKeyAlwaysRatio(rank) == "peak_congestion_ratio"

\* key = 'intensity' if rank_by == 'intensity' else 'peak_congestion_ratio'
SortKey(rank) == IF rank = "intensity" THEN "intensity" ELSE "peak_congestion_ratio"

\* a[key] < b[key]; two ratios are compared as fractions
KeyLess(a, b, key) ==
  IF key = "intensity" THEN a.intensity < b.intensity
  ELSE a.peak_congestion_ratio[1] * b.peak_congestion_ratio[2]
         < b.peak_congestion_ratio[1] * a.peak_congestion_ratio[2]

\* the indexers an unstable descending sort can return for the positions in left:
\* each next position holds a largest remaining key, equal keys in either order
RECURSIVE SortOutcomes(_, _, _)
SortOutcomes(recs, left, key) ==
  IF left = {} THEN { << >> }
  ELSE UNION { { <<i>> \o rest : rest \in SortOutcomes(recs, left \ {i}, key) } :
               i \in { i \in left : \A j \in left : ~KeyLess(recs[i], recs[j], key) } }

\* summary_df.sort_values(by=key, ascending=False) with the default kind
\* ('quicksort', which numpy does not make stable)
sort_values(recs, key) == SortOutcomes(recs, 1..Len(recs), key)

\* ------------------------------------------------ engine.analyze_overlaps
\* the order of sort_values([key, "peak"], ascending=[False, False])
EngineBefore(a, b, rank) ==
  IF rank = "intensity"
  THEN a.intensity > b.intensity \/ (a.intensity = b.intensity /\ a.peak >= b.peak)
  ELSE a.peak_ratio > b.peak_ratio \/ (a.peak_ratio = b.peak_ratio /\ a.peak >= b.peak)

RECURSIVE EngineInsert(_, _, _)
EngineInsert(sorted, r, rank) ==
  IF sorted = << >> THEN <<r>>
  ELSE IF EngineBefore(sorted[Len(sorted)], r, rank) THEN Append(sorted, r)
  ELSE Append(EngineInsert(SubSeq(sorted, 1, Len(sorted) - 1), r, rank), sorted[Len(sorted)])

\* the ranking block: a two-column sort keeps the order of rows equal on both columns
RECURSIVE EngineRank(_, _)
EngineRank(rows, rank) ==
  IF rows = << >> THEN << >>
  ELSE EngineInsert(EngineRank(SubSeq(rows, 1, Len(rows) - 1), rank), rows[Len(rows)], rank)

\* c.strip().lower() on the header spellings that occur in HeaderPairs
strip_lower(c) ==
  CASE c = " Event " -> "event"
    [] c = "Runner_ID" -> "runner_id"
    [] c = "PACE" -> "pace"
    [] c = "Distance " -> "distance"
    [] c = " START" -> "start"
    [] c = "End" -> "end"
    [] c = "OverlapsWith" -> "overlapswith"
    [] OTHER -> c

\* df.columns = [c.strip().lower() for c in df.columns]
NormalizeColumns(cols) == { strip_lower(c) : c \in cols }

\* bridge: {'event','runner_id','pace','distance'}.issubset(df.columns)
BridgePaceOk(cols) == {"event", "runner_id", "pace", "distance"} \subseteq NormalizeColumns(cols)

\* engine: need_pace = {"event", "runner_id", "pace"}
EnginePaceOk(cols) == {"event", "runner_id", "pace"} \subseteq NormalizeColumns(cols)

\* both: {'event','start','end','overlapswith'}.issubset(overlaps.columns)
OverlapsOk(cols) == {"event", "start", "end", "overlapswith"} \subseteq NormalizeColumns(cols)

\* the headers of the two CSV files: complete, complete in another spelling, and
\* with one required column missing; the run on the file with a description column
\* is the verbose one
HeaderPairs ==
  { <<{"event", "runner_id", "pace", "distance"}, {"event", "start", "end", "overlapswith"}>>,
    <<{" Event ", "Runner_ID", "PACE", "Distance "}, {"event", " START", "End", "OverlapsWith", "description"}>>,
    <<{"event", "runner_id", "pace"}, {"event", "start", "end", "overlapswith"}>>,
    <<{"event", "runner_id", "distance"}, {"event", "start", "end", "overlapswith"}>>,
    <<{"event", "runner_id", "pace", "distance"}, {"event", "start", "end"}>> }

\* engine.analyze_overlaps: the two schema checks, then the row loop.  The loop calls
\* _detect_segment_overlap(..., time_window, step): the name step is bound nowhere,
\* so the first row that is not skipped raises NameError
EngineAnalyzeOverlaps(pace_cols, ov_cols, rows, st, rank) ==
  IF ~EnginePaceOk(pace_cols) \/ ~OverlapsOk(ov_cols)
  THEN [raised |-> "ValueError"]
  ELSE IF \E i \in 1..Len(rows) : rows[i].event \in DOMAIN st /\ rows[i].overlapswith \in DOMAIN st
  THEN [raised |-> "NameError"]
  ELSE [raised |-> "none", summary_df |-> EngineRank(<< >>, rank)]

\* the lines _process_segment returns for one task: none unless verbose, else a
\* block whose wording is fixed by the task and by what detection returned
SegLines(t, rec, vb) == IF vb THEN << [task |-> t, rec |-> rec] >> ELSE << >>

\* the header line of the summary
SummaryHeader(rank) ==
  IF rank = "intensity" THEN "cumulative intensity"
  ELSE "peak congestion ratio (acute bottlenecks)"

\* "\n".join(lines) after the header and one line per ranked row were appended
ReportText(seg_lines, rank, recs, order) ==
  seg_lines \o << SummaryHeader(rank) >> \o [i \in 1..Len(order) |-> <<i, recs[order[i]]>>]

\* ----------------------------------------------------- summary pipeline
InitSummary ==
  /\ \E wd \in SumWorlds : df = wd[1] /\ start_times = wd[2]
  /\ overlaps \in OverlapTables
  /\ rank_by \in {"peak_ratio", "intensity"}
  /\ \E h \in HeaderPairs :
       /\ pace_columns = h[1]
       /\ ov_columns = h[2]
       /\ verbose = ("description" \in h[2])
  /\ time_window_secs = 25
  /\ step_km = 1
  /\ pc = "load"
  /\ tasks = << >>
  /\ pending = {}
  /\ records = << >>
  /\ summary = << >>
  /\ lines = << >>
  /\ detections = << >>
  /\ engine_out = NotReturned
  /\ bridge_out = NotReturned
  /\ DensityIdle
  /\ ApiIdle
  /\ CacheIdle
  /\ start_prev = 0 /\ start_curr = 0 /\ seg_start_km = 0 /\ seg_end_km = 0
  /\ called = {}
  /\ res_bridge = None
  /\ res_brute = None
  /\ res_engine = EngineDetect(<< >>, << >>, 0, 0, 0, 0, 0, 1)

sumInputs == <<df, overlaps, start_times, rank_by, time_window_secs, step_km,
               pace_columns, ov_columns, verbose,
               start_prev, start_curr, seg_start_km, seg_end_km, called,
               res_bridge, res_brute, res_engine>>

\* engine.analyze_overlaps on the same inputs
EngineAnalyze ==
  /\ pc = "load"
  /\ engine_out' = EngineAnalyzeOverlaps(pace_columns, ov_columns, overlaps, start_times, rank_by)
  /\ pc' = "submit"
  /\ UNCHANGED <<cacheVars, apiVars, densVars, sumInputs, tasks, pending, records, summary, lines, detections, bridge_out>>

\* bridge.analyze_overlaps from the schema checks to executor.submit of every task
SubmitTasks ==
  /\ pc = "submit"
  /\ IF ~BridgePaceOk(pace_columns) \/ ~OverlapsOk(ov_columns)
     THEN /\ bridge_out' = [raised |-> "ValueError"]
          /\ pc' = "raised"
          /\ UNCHANGED <<tasks, pending, detections>>
     ELSE /\ tasks' = BuildTaskList(overlaps, start_times)
          /\ pending' = 1..Len(BuildTaskList(overlaps, start_times))
          /\ detections' = [i \in 1..Len(BuildTaskList(overlaps, start_times)) |-> 0]
          /\ pc' = "run"
          /\ UNCHANGED bridge_out
  /\ UNCHANGED <<cacheVars, apiVars, densVars, sumInputs, records, summary, lines, engine_out>>

\* as_completed yields the future of task i: its lines are appended, and its record
\* unless it is {}
Complete(i) ==
  /\ pc = "run"
  /\ i \in pending
  /\ LET rec == ProcessSegment(df, tasks[i], time_window_secs, step_km)
     IN /\ records' = IF rec.is_empty THEN records ELSE Append(records, rec)
        /\ lines' = lines \o SegLines(tasks[i], rec, verbose)
  /\ detections' = [detections EXCEPT ![i] = @ + 1]
  /\ pending' = pending \ {i}
  /\ UNCHANGED <<cacheVars, apiVars, densVars, sumInputs, pc, tasks, summary, engine_out, bridge_out>>

\* after the pool: no records returns ("", []); otherwise the records are ranked
\* and the text and the record list are returned
Summarize ==
  /\ pc = "run"
  /\ pending = {}
  /\ IF records = << >>
     THEN /\ summary' = << >>
          /\ bridge_out' = [raised |-> "none", text |-> << >>, records |-> << >>]
     ELSE /\ summary' \in sort_values(records, SortKey(rank_by))
          /\ bridge_out' = [raised |-> "none",
                            text |-> ReportText(lines, rank_by, records, summary'),
                            records |-> records]
  /\ pc' = "done"
  /\ UNCHANGED <<cacheVars, apiVars, densVars, sumInputs, tasks, pending, records, lines, detections, engine_out>>

NextSummary ==
  \/ EngineAnalyze
  \/ SubmitTasks
  \/ \E i \in 1..MaxRows : Complete(i)
  \/ Summarize

SpecSummary == InitSummary /\ [][NextSummary]_vars

\* ------------------------------------------------------- summary claims
\* row i of the ranked summary
SummaryRow(i) == records[summary[i]]

\* C9: in the ranked summary no record comes after a record with a strictly smaller
\* key: peak_congestion_ratio under rank_by = "peak_ratio", intensity under
\* rank_by = "intensity"; the summary holds every record once.
C9_RankedByKey ==
  pc = "done" =>
    /\ Len(summary) = Len(records)
    /\ { summary[i] : i \in 1..Len(summary) } = 1..Len(records)
    /\ \A i, j \in 1..Len(summary) :
         i < j =>
           IF rank_by = "intensity"
           THEN SummaryRow(i).intensity >= SummaryRow(j).intensity
           ELSE SummaryRow(i).peak_congestion_ratio[1] * SummaryRow(j).peak_congestion_ratio[2]
                  >= SummaryRow(j).peak_congestion_ratio[1] * SummaryRow(i).peak_congestion_ratio[2]

\* ranked by intensity against the order of the ratios
C9_Witness ==
  /\ pc = "done"
  /\ rank_by = "intensity"
  /\ \E i, j \in 1..Len(summary) :
       /\ i < j
       /\ SummaryRow(i).intensity > SummaryRow(j).intensity
       /\ SummaryRow(i).peak_congestion_ratio[1] * SummaryRow(j).peak_congestion_ratio[2]
            < SummaryRow(j).peak_congestion_ratio[1] * SummaryRow(i).peak_congestion_ratio[2]

\* C10: two records with equal ranking key keep, in the ranked summary, the order in
\* which they were inserted into the record list (stated for two records that differ
\* in some field, so that the two orders are different summaries).
C10_TiesKeepInsertionOrder ==
  pc = "done" =>
    \A i, j \in 1..Len(summary) :
      (/\ i < j
       /\ SummaryRow(i) # SummaryRow(j)
       /\ ~KeyLess(SummaryRow(i), SummaryRow(j), SortKey(rank_by))
       /\ ~KeyLess(SummaryRow(j), SummaryRow(i), SortKey(rank_by)))
        => summary[i] < summary[j]

\* ------------------------------------------- analyze_overlaps claims
\* what _detect_segment_overlap returns for task t
TaskDetect(t) ==
  BridgeDetect(df, t.prev_event, t.curr_event, t.start_prev, t.start_curr,
               t.seg_start, t.seg_end, time_window_secs, step_km, coarse_factor)

\* the records and the line blocks when the futures complete in submission order
TaskOrderRecords ==
  LET all == [i \in 1..Len(tasks) |-> ProcessSegment(df, tasks[i], time_window_secs, step_km)]
      kept(r) == ~r.is_empty
  IN SelectSeq(all, kept)

TaskOrderLines ==
  IF verbose
  THEN [i \in 1..Len(tasks) |->
          [task |-> tasks[i], rec |-> ProcessSegment(df, tasks[i], time_window_secs, step_km)]]
  ELSE << >>

\* what analyze_overlaps can return when the futures complete in submission order
TaskOrderOutputs ==
  IF TaskOrderRecords = << >>
  THEN { [raised |-> "none", text |-> << >>, records |-> << >>] }
  ELSE { [raised |-> "none",
          text |-> ReportText(TaskOrderLines, rank_by, TaskOrderRecords, order),
          records |-> TaskOrderRecords] :
           order \in sort_values(TaskOrderRecords, SortKey(rank_by)) }

\* C11: the report text and the record list bridge.analyze_overlaps returns are those
\* of the run in which the futures complete in submission order, whatever the order
\* in which as_completed yielded them.
C11_CompletionOrderIndependent ==
  pc = "done" => bridge_out \in TaskOrderOutputs

\* C12: the ranked summary has one row per task whose detection result is not None,
\* no row for a task whose result is None, and a row for every task whose result
\* is the zero-result.
C12_NoneRowsOmitted ==
  pc = "done" =>
    \A res \in { [i \in 1..Len(tasks) |-> TaskDetect(tasks[i])] } :
    LET row_of(k, i) ==
          /\ SummaryRow(k).prev_event = tasks[i].prev_event
          /\ SummaryRow(k).curr_event = tasks[i].curr_event
          /\ SummaryRow(k).seg_start = tasks[i].seg_start
          /\ SummaryRow(k).seg_end = tasks[i].seg_end
    IN /\ Len(summary) = Cardinality({ i \in 1..Len(tasks) : ~res[i].is_none })
       /\ Len(bridge_out.records) = Len(summary)
       /\ \A i \in 1..Len(tasks) :
            IF res[i].is_none
            THEN \A k \in 1..Len(summary) : ~row_of(k, i)
            ELSE \E k \in 1..Len(summary) :
                   /\ row_of(k, i)
                   /\ SummaryRow(k).intensity = res[i].cumulative_overlap_events
                   /\ SummaryRow(k).peak_congestion = res[i].peak_congestion
                   /\ SummaryRow(k).distinct_pairs = res[i].unique_overlapping_pairs

\* a run with a task on an event without runners (result None) and a task whose
\* result is the zero-result, which is the only row that is ranked
C12_Witness ==
  /\ pc = "done"
  /\ Len(summary) = 1
  /\ Len(tasks) >= 2
  /\ SummaryRow(1).intensity = 0
  /\ \E i \in 1..Len(tasks) :
       /\ EventRows(df, tasks[i].curr_event) = << >>
       /\ TaskDetect(tasks[i]).is_none

\* both events of an overlaps row have a start time
KnownRow(r) == r.event \in DOMAIN start_times /\ r.overlapswith \in DOMAIN start_times

\* task t was built from a row equal to r
TaskOfRow(t, r) ==
  /\ t.prev_event = r.event /\ t.curr_event = r.overlapswith
  /\ t.seg_start = r.start /\ t.seg_end = r.end

SomeRowSkipped == \E k \in 1..Len(overlaps) : ~KnownRow(overlaps[k])

\* a required column is missing after lower-casing and trimming the header
MissingRequired ==
  \/ ~({"event", "runner_id", "pace", "distance"} \subseteq NormalizeColumns(pace_columns))
  \/ ~({"event", "start", "end", "overlapswith"} \subseteq NormalizeColumns(ov_columns))

\* C13: a row with an event absent from start_times gets no task, no detection, no
\* record and no report line, and nothing is raised; every row with both events
\* present is processed exactly once, equal rows of the same pair included.
C13_UnknownEventsSkipped ==
  /\ pc \in {"run", "done"} =>
       \A k \in 1..Len(overlaps) :
         Cardinality({ i \in 1..Len(tasks) : TaskOfRow(tasks[i], overlaps[k]) }) =
           IF KnownRow(overlaps[k])
           THEN Cardinality({ m \in 1..Len(overlaps) : overlaps[m] = overlaps[k] })
           ELSE 0
  /\ pc = "done" =>
       /\ bridge_out.raised = "none"
       /\ \A i \in 1..Len(tasks) : detections[i] = 1
       /\ Len(lines) = IF verbose THEN Len(tasks) ELSE 0
       /\ \A k \in 1..Len(overlaps) :
            ~KnownRow(overlaps[k]) =>
              /\ \A n \in 1..Len(lines) : ~TaskOfRow(lines[n].task, overlaps[k])
              /\ \A n \in 1..Len(records) : ~TaskOfRow(records[n], overlaps[k])
  /\ (pc # "load" /\ ~MissingRequired /\ SomeRowSkipped) =>
       engine_out.raised = "none"

\* C14: when a required column is missing, analyze_overlaps (bridge and engine)
\* raises ValueError and no detection task was created or run.
C14_SchemaErrorBeforeDetection ==
  MissingRequired =>
    /\ pc # "load" => engine_out.raised = "ValueError"
    /\ pc \notin {"load", "submit"} =>
         /\ bridge_out.raised = "ValueError"
         /\ tasks = << >> /\ detections = << >> /\ records = << >> /\ lines = << >>

\* ------------------------------------------------------------ density.py
\* Units.  Distances (km_from, km_to, step_km, zone km) are whole metres, width_m is
\* in centimetres, arrival times are milliseconds, window_s is in seconds.  A
\* density, a share and a component of the index is a fraction <<num, den>>, den > 0.
STEP_KM_DEFAULT == 30

\* round() of num / den for num >= 0: to the nearest integer, a tie to the even one
RoundHalfEven(num, den) ==
  LET q == num \div den
      r == num % den
  IN IF 2 * r < den THEN q
     ELSE IF 2 * r > den THEN q + 1
     ELSE IF q % 2 = 0 THEN q ELSE q + 1

RECURSIVE GCD(_, _)
GCD(a, b) == IF b = 0 THEN a ELSE GCD(b, a % b)

\* a fraction in lowest terms, and the sum of two fractions
Reduce(x) == IF x[1] = 0 THEN <<0, 1>> ELSE <<x[1] \div GCD(x[1], x[2]), x[2] \div GCD(x[1], x[2])>>
FracAdd(x, y) == Reduce(<<x[1] * y[2] + y[1] * x[2], x[2] * y[2]>>)

\* round(x, 2) of a distance: to the nearest 0.01 km
Round2Km(x) == 10 * RoundHalfEven(x, 10)

\* _bins: n = max(0, int(round((k1 - k0) / step_km))), then n + 1 rounded km
bins(k0, k1, step) ==
  LET n == IF k1 - k0 <= 0 THEN 0 ELSE RoundHalfEven(k1 - k0, step)
  IN [i \in 1..(n + 1) |-> Round2Km(k0 + (i - 1) * step)]

Zones == {"green", "amber", "red", "dark_red"}

\* _zone: < 1.0 green, < 1.5 amber, < 2.0 red, else dark_red
zone(density) ==
  IF density[1] < density[2] THEN "green"
  ELSE IF 2 * density[1] < 3 * density[2] THEN "amber"
  ELSE IF density[1] < 2 * density[2] THEN "red"
  ELSE "dark_red"

\* mutant of PeakComponent: the red ramp starts again from 0
PeakComponentRedFromZero(d_peak) ==
  LET n == d_peak[1]
      m == d_peak[2]
      raw == IF n < m THEN 0
             ELSE IF 2 * n < 3 * m THEN 4 * (n - m)
             ELSE IF n < 2 * m THEN 4 * n - 6 * m
             ELSE 4 * m + (Min(n, 3 * m) - 2 * m)
  IN <<Max(0, Min(5 * m, raw)), m>>

\* s_peak: 0 below 1.0, 2 (d - 1) / 0.5 below 1.5, 2 + 2 (d - 1.5) / 0.5 below 2.0,
\* else 4 + (min(d, 3) - 2); then clamped to [0, 5]
PeakComponent(d_peak) ==
  LET n == d_peak[1]
      m == d_peak[2]
      raw == IF n < m THEN 0
             ELSE IF 2 * n < 3 * m THEN 4 * (n - m)
             ELSE IF n < 2 * m THEN 2 * m + (4 * n - 6 * m)
             ELSE 4 * m + (Min(n, 3 * m) - 2 * m)
  IN <<Max(0, Min(5 * m, raw)), m>>

\* s_zones = 3 * min(1, 0.4 share_amber + 0.8 share_red + 1.0 share_dark)
DurationComponent(share_amber, share_red, share_dark) ==
  LET weighted == FracAdd(FracAdd(Reduce(<<4 * share_amber[1], 10 * share_amber[2]>>),
                                  Reduce(<<8 * share_red[1], 10 * share_red[2]>>)),
                          Reduce(<<10 * share_dark[1], 10 * share_dark[2]>>))
  IN <<3 * Min(weighted[2], weighted[1]), weighted[2]>>

\* round(min(10, x), 1) of the fraction x, in tenths
RoundTenths(x) == RoundHalfEven(10 * Min(10 * x[2], x[1]), x[2])

\* _congestion_index, in tenths
congestion_index(d_peak, share_amber, share_red, share_dark) ==
  LET s_peak == PeakComponent(d_peak)
      s_zones == DurationComponent(share_amber, share_red, share_dark)
  IN RoundTenths(FracAdd(Reduce(s_peak), Reduce(s_zones)))

\* start_times_min.get(e, 0)
Get(st, e) == IF e \in DOMAIN st THEN st[e] ELSE 0

\* mutant of ArrivalMs: the start offset grows with the runner's pace
ArrivalMsStartScaled(row, st, k) ==
  Get(st, row.event) * 60 * 1000 * row.pace + (row.pace * 60) * k

\* start_s + sec_per_km * k of one pace-table row, in milliseconds
ArrivalMs(row, st, k) == Get(st, row.event) * 60 * 1000 + (row.pace * 60) * k

\* mutant of EventCount: the window opens at the first arrival instead of being centred on it
EventCountFromAnchor(df_ev, st, k, window_s) ==
  IF df_ev = << >> THEN 0
  ELSE LET t0 == CHOOSE t \in { ArrivalMs(df_ev[i], st, k) : i \in 1..Len(df_ev) } :
                   \A i \in 1..Len(df_ev) : t <= ArrivalMs(df_ev[i], st, k)
       IN Cardinality({ i \in 1..Len(df_ev) :
                          /\ ArrivalMs(df_ev[i], st, k) >= t0
                          /\ ArrivalMs(df_ev[i], st, k) <= t0 + 1000 * window_s })

\* counts[ev]: 0 for no runners, else the runners within window_s / 2 of the first arrival
EventCount(df_ev, st, k, window_s) ==
  IF df_ev = << >> THEN 0
  ELSE LET t0 == CHOOSE t \in { ArrivalMs(df_ev[i], st, k) : i \in 1..Len(df_ev) } :
                   \A i \in 1..Len(df_ev) : t <= ArrivalMs(df_ev[i], st, k)
       IN Cardinality({ i \in 1..Len(df_ev) :
                          /\ ArrivalMs(df_ev[i], st, k) >= t0 - 500 * window_s
                          /\ ArrivalMs(df_ev[i], st, k) <= t0 + 500 * window_s })

\* evs = [seg.event_a] + ([seg.event_b] if seg.event_b else []); "" is no event
Evs(seg) == IF seg.event_b = "" THEN {seg.event_a} ELSE {seg.event_a, seg.event_b}

\* sum(counts.values())
RECURSIVE SumCounts(_, _)
SumCounts(counts, keys) ==
  IF keys = {} THEN 0
  ELSE LET e == CHOOSE x \in keys : TRUE
       IN counts[e] + SumCounts(counts, keys \ {e})

compute_density_steps(pace_df, seg, start_times_min, step, window_s) ==
  LET ks == bins(seg.km_from, seg.km_to, step)
      evs == Evs(seg)
      in_evs(r) == r.event \in evs
      dfx == SelectSeq(pace_df, in_evs)
      area_per_step == step * Max(1, seg.width_m)
      counts_at(k) == [e \in evs |-> EventCount(EventRows(dfx, e), start_times_min, k, window_s)]
  IN IF dfx = << >>
     THEN [i \in 1..Len(ks) |->
             [km |-> ks[i], counts |-> [e \in evs |-> 0], combined |-> 0,
              areal_m2 |-> <<0, 1>>, linear_m |-> <<0, 1>>]]
     ELSE [i \in 1..Len(ks) |->
             [km |-> ks[i], counts |-> counts_at(ks[i]),
              combined |-> SumCounts(counts_at(ks[i]), evs),
              areal_m2 |-> <<100 * SumCounts(counts_at(ks[i]), evs), area_per_step>>,
              linear_m |-> <<SumCounts(counts_at(ks[i]), evs), step>>]]

\* max(steps, key=lambda s: s.areal_m2): the first step of the largest areal density
PeakIndex(steps) ==
  CHOOSE i \in 1..Len(steps) :
    \A j \in 1..Len(steps) :
      LET a == steps[i].areal_m2
          b == steps[j].areal_m2
      IN b[1] * a[2] < a[1] * b[2] \/ (b[1] * a[2] = a[1] * b[2] /\ i <= j)

\* segments of the model have km_to > km_from, where max(1e-9, km_to - km_from) is the difference
rollup_segment(steps, seg) ==
  IF steps = << >> THEN [raised |-> "ValueError"]
  ELSE
  LET peak == steps[PeakIndex(steps)]
      zone_km == [z \in Zones |->
                    STEP_KM_DEFAULT * Cardinality({ i \in 1..Len(steps) : zone(steps[i].areal_m2) = z })]
      length_km == seg.km_to - seg.km_from
      area_seg == Max(100, length_km * Max(1, seg.width_m))
  IN [raised |-> "none",
      peak_km |-> peak.km,
      peak_combined |-> peak.combined,
      peak_counts |-> peak.counts,
      peak_step_areal_m2 |-> RoundHalfEven(100 * peak.areal_m2[1], peak.areal_m2[2]),
      avg_areal |-> <<100 * peak.combined, area_seg>>,
      avg_linear |-> <<peak.combined, length_km>>,
      zone_km |-> zone_km,
      zones_km |-> [z \in Zones |-> Round2Km(zone_km[z])],
      index_0_10 |-> congestion_index(peak.areal_m2, <<zone_km["amber"], length_km>>,
                                      <<zone_km["red"], length_km>>,
                                      <<zone_km["dark_red"], length_km>>)]

\* ------------------------------------------------------ density pipeline
\* the overlap analysis is not running
OverlapIdle ==
  /\ df = << >> /\ start_prev = 0 /\ start_curr = 0
  /\ seg_start_km = 0 /\ seg_end_km = 0
  /\ time_window_secs = 0 /\ step_km = 1
  /\ called = {}
  /\ res_bridge = None /\ res_brute = None
  /\ res_engine = EngineDetect(<< >>, << >>, 0, 0, 0, 0, 0, 1)
  /\ overlaps = << >> /\ start_times = << >> /\ rank_by = "peak_ratio"
  /\ pc = "idle"
  /\ tasks = << >> /\ pending = {} /\ records = << >> /\ summary = << >>
  /\ engine_out = NotReturned /\ bridge_out = NotReturned
  /\ pace_columns = {} /\ ov_columns = {}
  /\ verbose = FALSE /\ lines = << >> /\ detections = << >>

DensitySegments ==
  { [event_a |-> "A", event_b |-> eb, km_from |-> r[1], km_to |-> r[2],
     width_m |-> wd, direction |-> "uni"] :
      eb \in {"", "B"}, r \in {<<0, 300>>, <<200, 1200>>}, wd \in {0, 2, 5} }

DensityInputs ==
  [pace_df : Tables,
   seg : DensitySegments,
   start_times_min : { ("A" :> 1) },
   step_km : {30, 34, 100},
   window_s : {10, 60}]

InitDensity ==
  /\ OverlapIdle
  /\ ApiIdle
  /\ CacheIdle
  /\ density_in \in DensityInputs
  /\ density_steps = << >>
  /\ density_roll = << >>
  /\ index_args = << >>
  /\ index_out = 0
  /\ dpc = "steps"

\* _build_blocks, first call: the steps of the segment
ComputeDensitySteps ==
  /\ dpc = "steps"
  /\ density_steps' = compute_density_steps(density_in.pace_df, density_in.seg,
                                            density_in.start_times_min,
                                            density_in.step_km, density_in.window_s)
  /\ dpc' = "rollup"
  /\ UNCHANGED <<cacheVars, detVars, sumVars, apiVars, density_in, density_roll, index_args, index_out>>

\* _build_blocks, second call: the rollup of these steps
RollupSegment ==
  /\ dpc = "rollup"
  /\ density_roll' = rollup_segment(density_steps, density_in.seg)
  /\ dpc' = "done"
  /\ UNCHANGED <<cacheVars, detVars, sumVars, apiVars, density_in, density_steps, index_args, index_out>>

NextDensity ==
  \/ ComputeDensitySteps
  \/ RollupSegment

SpecDensity == InitDensity /\ [][NextDensity]_vars

\* --------------------------------------------------- _congestion_index alone
\* peak densities in hundredths, around and between the breakpoints
PeakDensities == {0, 50, 99, 100, 101, 125, 149, 150, 151, 175, 199, 200, 201, 250, 299, 300, 301, 400}

\* zone shares in percent
SharePercents == {0, 10, 35, 100}

IndexInputs ==
  { <<d, a, r, k>> \in PeakDensities \X SharePercents \X SharePercents \X SharePercents :
      a + r + k <= 110 }

InitIndex ==
  /\ OverlapIdle
  /\ ApiIdle
  /\ CacheIdle
  /\ density_in = << >>
  /\ density_steps = << >>
  /\ density_roll = << >>
  /\ index_args \in IndexInputs
  /\ index_out = 0
  /\ dpc = "index"

IndexOf(d, a, r, k) == congestion_index(<<d, 100>>, <<a, 100>>, <<r, 100>>, <<k, 100>>)

CongestionIndexCall ==
  /\ dpc = "index"
  /\ index_out' = IndexOf(index_args[1], index_args[2], index_args[3], index_args[4])
  /\ dpc' = "done"
  /\ UNCHANGED <<cacheVars, detVars, sumVars, apiVars, density_in, density_steps, density_roll, index_args>>

NextIndex == CongestionIndexCall

SpecIndex == InitIndex /\ [][NextIndex]_vars

\* --------------------------------------------------------- density claims
\* C15: the four zone shares of the rollup sum to 1.0 within one step: the zone km
\* add up to the segment length km_to - km_from up to one step_km.
C15_ZoneSharesSumToOne ==
  dpc = "done" /\ density_in # << >> =>
    Abs(density_roll.zone_km["green"] + density_roll.zone_km["amber"]
        + density_roll.zone_km["red"] + density_roll.zone_km["dark_red"]
        - (density_in.seg.km_to - density_in.seg.km_from))
      <= density_in.step_km

\* C16: with the shares fixed, _congestion_index does not decrease when d_peak grows;
\* below 1.0 the peak component is 0 and the index is the rounded duration
\* component; from 3.0 on the peak component is 5.
C16_IndexMonotoneInPeak ==
  dpc = "done" /\ index_args # << >> =>
    /\ \A d2 \in PeakDensities :
         d2 >= index_args[1] =>
           IndexOf(d2, index_args[2], index_args[3], index_args[4]) >= index_out
    /\ index_args[1] < 100 =>
         /\ PeakComponent(<<index_args[1], 100>>)[1] = 0
         /\ index_out = RoundTenths(DurationComponent(<<index_args[2], 100>>, <<index_args[3], 100>>,
                                                      <<index_args[4], 100>>))
    /\ index_args[1] >= 300 =>
         PeakComponent(<<index_args[1], 100>>)[1] = 5 * PeakComponent(<<index_args[1], 100>>)[2]

\* d_peak on the amber ramp with non-zero shares, and a strictly larger index on the red ramp
C16_Witness ==
  /\ dpc = "done" /\ index_args # << >>
  /\ index_args[1] = 149
  /\ index_args[2] > 0 /\ index_args[3] > 0
  /\ index_out > 0
  /\ IndexOf(151, index_args[2], index_args[3], index_args[4]) > index_out
  /\ IndexOf(150, index_args[2], index_args[3], index_args[4]) >= index_out

\* the arrivals, in milliseconds, of the runners of event e at km k
ArrivalsOf(e, k) ==
  LET rows == EventRows(density_in.pace_df, e)
  IN [i \in 1..Len(rows) |->
        Get(density_in.start_times_min, e) * 60000 + rows[i].pace * 60 * k]

\* C17: at every sampled km the count of an event is the number of its runners
\* arriving within window/2 of the event's first arrival at that km, 0 for an event
\* without runners, and combined is the sum of the counts of the segment's events.
C17_CountsAroundFirstArrival ==
  dpc \in {"rollup", "done"} /\ density_in # << >> =>
    \A n \in 1..Len(density_steps) :
      LET st == density_steps[n]
          segevs == {density_in.seg.event_a} \cup ({density_in.seg.event_b} \ {""})
      IN /\ DOMAIN st.counts = segevs
         /\ \A e \in segevs :
              LET t == ArrivalsOf(e, st.km)
              IN IF t = << >> THEN st.counts[e] = 0
                 ELSE \E i0 \in 1..Len(t) :
                        /\ \A i \in 1..Len(t) : t[i0] <= t[i]
                        /\ st.counts[e] =
                             Cardinality({ i \in 1..Len(t) :
                                             /\ 2 * t[i] >= 2 * t[i0] - 1000 * density_in.window_s
                                             /\ 2 * t[i] <= 2 * t[i0] + 1000 * density_in.window_s })
         /\ st.combined = st.counts[density_in.seg.event_a]
                          + (IF density_in.seg.event_b = "" THEN 0 ELSE st.counts[density_in.seg.event_b])

\* two events; at some km a runner of A is outside the window and at another km inside
C17_Witness ==
  /\ dpc = "done" /\ density_in # << >>
  /\ density_in.seg.event_b = "B"
  /\ \E n, m \in 1..Len(density_steps) :
       /\ density_steps[n].counts["A"] = 2
       /\ density_steps[m].counts["A"] = 1
       /\ density_steps[m].counts["B"] >= 1
       /\ density_steps[m].combined >= 2

\* ---------------------------------------------------------- api/overlap.py
\* Units.  stepKm is in hundredths of a km; the km of the overlaps rows and of the
\* segment filters are whole numbers.
MIN_STEP_KM == 3

Requests == {1, 2}

\* the rows of the CSV at overlapsCsv
ApiOverlaps ==
  << OverlapRow("A", "B", 0, 4), OverlapRow("A", "C", 5, 10), OverlapRow("B", "C", 2, 6) >>

\* an entry of the request's segments list: a well-formed "Event:start-end" string,
\* a well-formed object, or an entry _parse_segments rejects
SegmentEntry(kind, ev, a, b) == [kind |-> kind, event |-> ev, start |-> a, end |-> b]

SegmentSpecs ==
  { << >>,
    << SegmentEntry("str", "A", 0, 4) >>,
    << SegmentEntry("dict", "A", 5, 10), SegmentEntry("str", "A", 6, 8) >>,
    << SegmentEntry("str", "D", 0, 1) >>,
    << SegmentEntry("bad", "A", 0, 4) >> }

\* _parse_segments: the (event, start, end) tuples, or ValueError for a bad entry
ParseSegments(spec) ==
  IF \E i \in 1..Len(spec) : spec[i].kind = "bad"
  THEN [raised |-> TRUE, wanted |-> << >>]
  ELSE [raised |-> FALSE,
        wanted |-> [i \in 1..Len(spec) |-> <<spec[i].event, spec[i].start, spec[i].end>>]]

\* _intersects: the closed ranges [a1, a2] and [b1, b2], ends in either order, meet
Intersects(a1, a2, b1, b2) ==
  ~(Max(a1, a2) < Min(b1, b2) \/ Max(b1, b2) < Min(a1, a2))

\* the rows of the wanted event that intersect the wanted range
Matches(rows, w) ==
  LET hit(r) == r.event = w[1] /\ Intersects(w[2], w[3], r.start, r.end)
  IN SelectSeq(rows, hit)

\* filtered.extend(matches) for every wanted entry, in order
RECURSIVE AllMatches(_, _, _)
AllMatches(rows, wanted, i) ==
  IF i > Len(wanted) THEN << >>
  ELSE Matches(rows, wanted[i]) \o AllMatches(rows, wanted, i + 1)

\* the first occurrence of every row is kept
RECURSIVE Dedupe(_)
Dedupe(rows) ==
  IF rows = << >> THEN << >>
  ELSE LET init == Dedupe(SubSeq(rows, 1, Len(rows) - 1))
           last == rows[Len(rows)]
       IN IF \E k \in 1..Len(init) : init[k] = last THEN init ELSE Append(init, last)

\* _filter_overlaps: (filtered rows, one error per wanted entry without a match)
FilterOverlaps(rows, wanted) ==
  IF wanted = << >> THEN [rows |-> rows, errors |-> {}]
  ELSE [rows |-> Dedupe(AllMatches(rows, wanted, 1)),
        errors |-> { i \in 1..Len(wanted) : Matches(rows, wanted[i]) = << >> }]

\* mutant of EffectiveStep: the requested step is used as it is
EffectiveStepUnclamped(step_km_req) == step_km_req

\* step_km after "if step_km < MIN_STEP_KM: ... step_km = MIN_STEP_KM"
EffectiveStep(step_km_req) == IF step_km_req < MIN_STEP_KM THEN MIN_STEP_KM ELSE step_km_req

\* warning_lines after the same test
WarningLines(step_km_req) ==
  IF step_km_req < MIN_STEP_KM THEN << [requested |-> step_km_req, using |-> MIN_STEP_KM] >>
  ELSE << >>

\* a response without the report: 400 and 500 bodies hold only the error message
ErrorResponse(status) == [status |-> status, warning_lines |-> << >>, report |-> << >>]

ApiRequests ==
  [stepKm : {1, 3, 5}, segments : SegmentSpecs, pace_ok : BOOLEAN]

NewHandler ==
  [pos |-> "new", step_km |-> 0, warning_lines |-> << >>, filtered_rows |-> << >>,
   path |-> "url", call |-> [ran |-> FALSE], response |-> [status |-> 0]]

InitApi ==
  /\ OverlapIdle
  /\ DensityIdle
  /\ CacheIdle
  /\ api_req \in [Requests -> ApiRequests]
  /\ handler = [r \in Requests |-> NewHandler]
  /\ tmp_file = [state |-> "absent", rows |-> << >>]

\* app from the start to the end of the segment filtering
ApiReceive(r) ==
  /\ handler[r].pos = "new"
  /\ LET parsed == ParseSegments(api_req[r].segments)
         flt == FilterOverlaps(ApiOverlaps, parsed.wanted)
         h == [handler[r] EXCEPT !.step_km = EffectiveStep(api_req[r].stepKm),
                                 !.warning_lines = WarningLines(api_req[r].stepKm)]
     IN handler' = [handler EXCEPT ![r] =
          IF api_req[r].segments = << >> THEN [h EXCEPT !.pos = "analyze"]
          ELSE IF parsed.raised \/ flt.errors # {}
          THEN [h EXCEPT !.pos = "done", !.response = ErrorResponse(400)]
          ELSE IF flt.rows # << >>
          THEN [h EXCEPT !.pos = "open", !.filtered_rows = flt.rows]
          ELSE [h EXCEPT !.pos = "analyze"]]
  /\ UNCHANGED <<cacheVars, detVars, sumVars, densVars, api_req, tmp_file>>

\* _write_temp_overlaps: open(tmp_path, "w") truncates the file
ApiOpenTemp(r) ==
  /\ handler[r].pos = "open"
  /\ tmp_file' = [state |-> "truncated", rows |-> << >>]
  /\ handler' = [handler EXCEPT ![r].pos = "write"]
  /\ UNCHANGED <<cacheVars, detVars, sumVars, densVars, api_req>>

\* _write_temp_overlaps: the header and the rows reach the file when it is closed
ApiWriteTemp(r) ==
  /\ handler[r].pos = "write"
  /\ tmp_file' = [state |-> "written",
                  rows |-> [i \in 1..Len(handler[r].filtered_rows) |->
                              OverlapRow(handler[r].filtered_rows[i].event,
                                         handler[r].filtered_rows[i].overlapswith,
                                         handler[r].filtered_rows[i].start,
                                         handler[r].filtered_rows[i].end)]]
  /\ handler' = [handler EXCEPT ![r].pos = "analyze", ![r].path = "tmp"]
  /\ UNCHANGED <<cacheVars, detVars, sumVars, densVars, api_req>>

\* analyze_overlaps(pace_csv, filtered_overlaps_path, ...) and the response: the
\* analysis reads the overlaps file when it starts; a file without a header line
\* or a pace table without the required columns makes it raise, which app answers
\* with 500
ApiAnalyze(r) ==
  /\ handler[r].pos = "analyze"
  /\ LET rows == IF handler[r].path = "tmp" THEN tmp_file.rows ELSE ApiOverlaps
         fails == ~api_req[r].pace_ok \/ (handler[r].path = "tmp" /\ tmp_file.state # "written")
     IN handler' = [handler EXCEPT
          ![r].pos = "done",
          ![r].call = [ran |-> TRUE, step_km |-> handler[r].step_km, rows |-> rows, raised |-> fails],
          ![r].response =
            IF fails THEN ErrorResponse(500)
            ELSE [status |-> 200, warning_lines |-> handler[r].warning_lines,
                  report |-> << [rows |-> rows, step_km |-> handler[r].step_km] >>]]
  /\ UNCHANGED <<cacheVars, detVars, sumVars, densVars, api_req, tmp_file>>

NextApi ==
  \E r \in Requests :
    \/ ApiReceive(r)
    \/ ApiOpenTemp(r)
    \/ ApiWriteTemp(r)
    \/ ApiAnalyze(r)

SpecApi == InitApi /\ [][NextApi]_vars

SoloResponse(req) ==
  LET parsed == ParseSegments(req.segments)
      flt == FilterOverlaps(ApiOverlaps, parsed.wanted)
  IN IF req.segments # << >> /\ (parsed.raised \/ flt.errors # {}) THEN ErrorResponse(400)
     ELSE IF ~req.pace_ok THEN ErrorResponse(500)
     ELSE [status |-> 200, warning_lines |-> WarningLines(req.stepKm),
           report |-> << [rows |-> flt.rows, step_km |-> EffectiveStep(req.stepKm)] >>]

\* C19: two requests handled concurrently share no mutable state: the response to
\* each request is the one its own inputs determine, also when the two requests
\* carry different segments filters.
C19_ResponsesIndependent ==
  \A r \in Requests :
    handler[r].pos = "done" => handler[r].response = SoloResponse(api_req[r])

\* ---------------------------------------------------------- first_overlap scans
\* inputs in which a slower runner of the prev event and a faster one reach the
\* same event time at consecutive km of the scan
TieTables ==
  { EventTable(prev_event, ps) \o EventTable(curr_event, cs) :
      ps \in UNION { [1..n -> {6, 7}] : n \in 0..MaxRunners },
      cs \in UNION { [1..n -> {5, 6}] : n \in 0..MaxRunners } }

InitFirstOverlap ==
  /\ df \in TieTables
  /\ start_prev = 0
  /\ start_curr \in {2, 17}
  /\ seg_start_km \in {0, 6}
  /\ seg_end_km \in {8, MaxKm}
  /\ time_window_secs \in {25, 60}
  /\ step_km \in Steps
  /\ called = {}
  /\ res_bridge = None
  /\ res_brute = None
  /\ res_engine = EngineDetect(<< >>, << >>, 0, 0, 0, 0, 0, 1)
  /\ overlaps = << >>
  /\ start_times = << >>
  /\ rank_by = "peak_ratio"
  /\ pc = "detect"
  /\ tasks = << >>
  /\ pending = {}
  /\ records = << >>
  /\ summary = << >>
  /\ engine_out = NotReturned
  /\ pace_columns = {}
  /\ ov_columns = {}
  /\ verbose = FALSE
  /\ lines = << >>
  /\ detections = << >>
  /\ bridge_out = NotReturned
  /\ DensityIdle
  /\ ApiIdle
  /\ CacheIdle

SpecFirstOverlap == InitFirstOverlap /\ [][Next]_vars

\* ---------------------------------------------------------- first_overlap claims
\* every hit of the scan over kms, as (event_time, km, prev runner, curr runner)
HitTuples(prev_df, curr_df, sp, sc, kms, w) ==
  UNION { { <<EventTime(prev_df, curr_df, sp, sc, kms[i], h), kms[i],
              prev_df[h[1]].runner_id, curr_df[h[2]].runner_id>> :
              h \in { HitsAt(prev_df, curr_df, sp, sc, kms[i], w)[k] :
                        k \in 1..Len(HitsAt(prev_df, curr_df, sp, sc, kms[i], w)) } } :
          i \in 1..Len(kms) }

\* fo is None when there is no hit, and otherwise a hit that no other hit precedes
\* in (event_time, km) order
EarliestHit(fo, H) ==
  IF H = {} THEN fo = << >>
  ELSE /\ fo \in H
       /\ \A h \in H : fo[1] < h[1] \/ (fo[1] = h[1] /\ fo[2] <= h[2])

\* the stored candidate changed only under the stated rule
ReplacedByRule(before, after) ==
  after # before =>
    \/ before = << >>
    \/ after[1] < before[1]
    \/ (after[1] = before[1] /\ after[2] < before[2])

\* the km of the bridge's fine scan
BridgeFineKms(prev_df, curr_df) ==
  LET coarse_step == step_km * coarse_factor
      candidates == Candidates(prev_df, curr_df, start_prev, start_curr, seg_start_km,
                               seg_end_km, time_window_secs, coarse_step)
  IN IF candidates = << >> THEN << >>
     ELSE Refined(MergeRanges(SortRanges(CandidateRanges(candidates, seg_start_km,
                                                         seg_end_km, coarse_step))), step_km)

RECURSIVE FineRule(_, _, _, _, _)
FineRule(acc, kms, i, prev_df, curr_df) ==
  \/ i > Len(kms)
  \/ \A nxt \in { FineStep(acc, prev_df, curr_df, start_prev, start_curr, kms[i],
                           time_window_secs) } :
       /\ ReplacedByRule(acc.first_overlap, nxt.first_overlap)
       /\ FineRule(nxt, kms, i + 1, prev_df, curr_df)

RECURSIVE BruteRule(_, _, _, _, _)
BruteRule(acc, kms, i, prev_df, curr_df) ==
  \/ i > Len(kms)
  \/ \A nxt \in { BruteStep(acc, prev_df, curr_df, start_prev, start_curr, kms[i],
                            time_window_secs) } :
       /\ ReplacedByRule(acc.first_overlap, nxt.first_overlap)
       /\ BruteRule(nxt, kms, i + 1, prev_df, curr_df)

RECURSIVE EngineRule(_, _, _, _, _)
EngineRule(acc, kms, i, a_df, b_df) ==
  \/ i > Len(kms)
  \/ \A nxt \in { EngineStep(acc, a_df, b_df, start_prev, start_curr, kms[i],
                             time_window_secs) } :
       /\ ReplacedByRule(acc.first_overlap, nxt.first_overlap)
       /\ EngineRule(nxt, kms, i + 1, a_df, b_df)

\* C20: in each of the three detectors, after the scan first_overlap is the hit
\* with the smallest event_time = min(time_prev, time_curr) over all hits at all
\* sampled km, and among hits with equal event_time one at the smallest km (None
\* when there is no hit); during the scan the stored candidate is replaced only
\* when the new event_time is strictly smaller, or equal with a strictly smaller km.
C20_FirstOverlapEarliest ==
  /\ ("bridge" \in called /\ ~res_bridge.is_none) =>
       \A pf \in { <<PreFilterPrev(prev_rows, curr_rows, start_prev, start_curr,
                                   seg_start_km, seg_end_km),
                     PreFilterCurr(prev_rows, curr_rows, start_prev, start_curr,
                                   seg_start_km, seg_end_km)>> } :
         \A kms \in { BridgeFineKms(pf[1], pf[2]) } :
           /\ EarliestHit(res_bridge.first_overlap,
                          HitTuples(pf[1], pf[2], start_prev, start_curr, kms, time_window_secs))
           /\ FineRule(ScanInit, kms, 1, pf[1], pf[2])
  /\ ("brute" \in called /\ ~res_brute.is_none) =>
       \A kms \in { arange(seg_start_km, seg_end_km, step_km) } :
         /\ EarliestHit(res_brute.first_overlap,
                        HitTuples(prev_rows, curr_rows, start_prev, start_curr, kms,
                                  time_window_secs))
         /\ BruteRule(ScanInit @@ [peak_prev |-> {}, peak_curr |-> {}], kms, 1,
                      prev_rows, curr_rows)
  /\ ("engine" \in called /\ prev_rows # << >> /\ curr_rows # << >>) =>
       \A kms \in { arange(seg_start_km, seg_end_km, step_km) } :
         /\ EarliestHit(res_engine.first_overlap,
                        HitTuples(prev_rows, curr_rows, start_prev, start_curr, kms,
                                  time_window_secs))
         /\ EngineRule(EngineInit, kms, 1, prev_rows, curr_rows)

\* all three detectors have scanned a segment in which the smallest event time
\* is reached by hits at two different km, and each reports the smaller km
C20_Witness ==
  /\ called = {"bridge", "brute", "engine"}
  /\ ~res_bridge.is_none /\ ~res_brute.is_none
  /\ res_bridge.first_overlap # << >>
  /\ res_brute.first_overlap = res_bridge.first_overlap
  /\ res_engine.first_overlap = res_bridge.first_overlap
  /\ \E h \in HitTuples(prev_rows, curr_rows, start_prev, start_curr,
                        arange(seg_start_km, seg_end_km, step_km), time_window_secs) :
       /\ h[1] = res_brute.first_overlap[1]
       /\ h[2] > res_brute.first_overlap[2]

\* ---------------------------------------------------------- range-merge claims
\* inputs on a long segment: a pair that meets near the start and a pair that
\* meets near the end, so the coarse scan finds candidates several coarse steps apart
LongTables ==
  { EventTable(prev_event, ps) \o EventTable(curr_event, cs) :
      ps \in UNION { [1..n -> {8, 9}] : n \in 0..MaxRunners },
      cs \in UNION { [1..n -> {5, 8}] : n \in 0..MaxRunners } }

InitLongSegment ==
  /\ df \in LongTables
  /\ start_prev = 0
  /\ start_curr \in {20, 21}
  /\ seg_start_km \in {0, 5}
  /\ seg_end_km \in {2 * MaxKm, 2 * MaxKm + 5}
  /\ time_window_secs \in {5, 25}
  /\ step_km \in Steps
  /\ called = {}
  /\ res_bridge = None
  /\ res_brute = None
  /\ res_engine = EngineDetect(<< >>, << >>, 0, 0, 0, 0, 0, 1)
  /\ overlaps = << >>
  /\ start_times = << >>
  /\ rank_by = "peak_ratio"
  /\ pc = "detect"
  /\ tasks = << >>
  /\ pending = {}
  /\ records = << >>
  /\ summary = << >>
  /\ engine_out = NotReturned
  /\ pace_columns = {}
  /\ ov_columns = {}
  /\ verbose = FALSE
  /\ lines = << >>
  /\ detections = << >>
  /\ bridge_out = NotReturned
  /\ DensityIdle
  /\ ApiIdle
  /\ CacheIdle

SpecLongSegment == InitLongSegment /\ [][Next]_vars

\* the runners left by the pre-filter of the call in the state
Filtered ==
  << PreFilterPrev(prev_rows, curr_rows, start_prev, start_curr, seg_start_km, seg_end_km),
     PreFilterCurr(prev_rows, curr_rows, start_prev, start_curr, seg_start_km, seg_end_km) >>

\* the clipped candidate intervals of the call in the state, before ranges.sort()
ClippedRanges ==
  CandidateRanges(Candidates(Filtered[1], Filtered[2], start_prev, start_curr, seg_start_km,
                             seg_end_km, time_window_secs, step_km * coarse_factor),
                  seg_start_km, seg_end_km, step_km * coarse_factor)

\* the points of a union of closed intervals with integer ends, on the half-unit
\* grid: two such unions are equal as sets of reals iff they agree on this grid
Cover(ranges) ==
  { x \in (2 * seg_start_km - 2 * step_km * coarse_factor)..(2 * seg_end_km + 2 * step_km * coarse_factor) :
      \E i \in 1..Len(ranges) : 2 * ranges[i][1] <= x /\ x <= 2 * ranges[i][2] }

\* C21: the merged list is sorted by start, each interval starts strictly after
\* the previous one ends, every interval lies in [seg_start_km, seg_end_km], and
\* the union of the merged intervals equals the union of the clipped candidate
\* intervals [km - coarse_step, km + coarse_step].
C21_MergedDisjointCover ==
  ("bridge" \in called /\ ~res_bridge.is_none /\ ClippedRanges # << >>) =>
    \A ranges \in { ClippedRanges } :
      \A merged \in { MergeRanges(SortRanges(ranges)) } :
        /\ \A i, j \in 1..Len(merged) : i < j => merged[i][1] <= merged[j][1]
        /\ \A i \in 1..(Len(merged) - 1) : merged[i + 1][1] > merged[i][2]
        /\ \A i \in 1..Len(merged) :
             /\ seg_start_km <= merged[i][1]
             /\ merged[i][1] <= merged[i][2]
             /\ merged[i][2] <= seg_end_km
        /\ Cover(merged) = Cover(ranges)

\* three candidates: two of them merge, the third stays an interval of its own
C21_Witness ==
  /\ "bridge" \in called /\ ~res_bridge.is_none
  /\ Len(ClippedRanges) >= 3
  /\ Len(MergeRanges(SortRanges(ClippedRanges))) = 2

\* ---------------------------------------------------------- peak and cumulative claims
\* the runner ids of one side (1 prev, 2 curr) with at least one hit at km
IdsWithHit(prev_df, curr_df, km, side) ==
  { IF side = 1 THEN prev_df[ij[1]].runner_id ELSE curr_df[ij[2]].runner_id :
      ij \in { ij \in (1..Len(prev_df)) \X (1..Len(curr_df)) :
                 Abs(Arrival(start_prev, prev_df[ij[1]].pace, km)
                     - Arrival(start_curr, curr_df[ij[2]].pace, km)) * 60
                   <= time_window_secs * 10 } }

\* distinct prev runners with a hit plus distinct curr runners with a hit, at km
TotalAt(prev_df, curr_df, km) ==
  Cardinality(IdsWithHit(prev_df, curr_df, km, 1)) + Cardinality(IdsWithHit(prev_df, curr_df, km, 2))

\* the largest TotalAt over kms, 0 without any km
PeakOver(prev_df, curr_df, kms) ==
  IF kms = << >> THEN 0
  ELSE CHOOSE m \in { TotalAt(prev_df, curr_df, kms[i]) : i \in 1..Len(kms) } :
         \A i \in 1..Len(kms) : TotalAt(prev_df, curr_df, kms[i]) <= m

\* the first km of kms whose TotalAt is m
FirstKmAt(prev_df, curr_df, kms, m) ==
  kms[CHOOSE i \in 1..Len(kms) :
        /\ TotalAt(prev_df, curr_df, kms[i]) = m
        /\ \A j \in 1..(i - 1) : TotalAt(prev_df, curr_df, kms[j]) # m]

\* C22: peak_congestion is the maximum over the sampled km of (distinct prev
\* runners with a hit at the km) + (distinct curr runners with a hit at the km);
\* the stored peak id sets (brute-force scan) and peak counts (engine) are those of
\* the first km that reaches the maximum, and their sizes sum to peak_congestion.
C22_PeakIsStepwiseMax ==
  /\ ("bridge" \in called /\ ~res_bridge.is_none) =>
       res_bridge.peak_congestion =
         PeakOver(Filtered[1], Filtered[2], BridgeFineKms(Filtered[1], Filtered[2]))
  /\ ("brute" \in called /\ ~res_brute.is_none) =>
       \A kms \in { arange(seg_start_km, seg_end_km, step_km) } :
         \A m \in { PeakOver(prev_rows, curr_rows, kms) } :
           /\ res_brute.peak_congestion = m
           /\ Cardinality(res_brute.peak_prev_at_peak)
                + Cardinality(res_brute.peak_curr_at_peak) = res_brute.peak_congestion
           /\ m = 0 => res_brute.peak_prev_at_peak = {} /\ res_brute.peak_curr_at_peak = {}
           /\ m > 0 =>
                \A km \in { FirstKmAt(prev_rows, curr_rows, kms, m) } :
                  /\ res_brute.peak_prev_at_peak = IdsWithHit(prev_rows, curr_rows, km, 1)
                  /\ res_brute.peak_curr_at_peak = IdsWithHit(prev_rows, curr_rows, km, 2)
  /\ ("engine" \in called /\ prev_rows # << >> /\ curr_rows # << >>) =>
       \A kms \in { arange(seg_start_km, seg_end_km, step_km) } :
         \A m \in { PeakOver(prev_rows, curr_rows, kms) } :
           /\ res_engine.peak_cong = m
           /\ res_engine.peak_a + res_engine.peak_b = res_engine.peak_cong
           /\ m > 0 =>
                \A km \in { FirstKmAt(prev_rows, curr_rows, kms, m) } :
                  /\ res_engine.peak_a = Cardinality(IdsWithHit(prev_rows, curr_rows, km, 1))
                  /\ res_engine.peak_b = Cardinality(IdsWithHit(prev_rows, curr_rows, km, 2))

\* the maximum is reached at two km with different runners on the prev side, and
\* the stored sets are those of the first of them
C22_Witness ==
  /\ called = {"bridge", "brute", "engine"}
  /\ ~res_bridge.is_none /\ ~res_brute.is_none
  /\ res_bridge.peak_congestion = res_brute.peak_congestion
  /\ res_engine.peak_cong = res_brute.peak_congestion
  /\ res_brute.peak_congestion >= 3
  /\ \E k \in 1..Len(arange(seg_start_km, seg_end_km, step_km)) :
       LET km == arange(seg_start_km, seg_end_km, step_km)[k]
       IN /\ TotalAt(prev_rows, curr_rows, km) = res_brute.peak_congestion
          /\ IdsWithHit(prev_rows, curr_rows, km, 1) # res_brute.peak_prev_at_peak

\* the number of (prev runner, curr runner) pairs within tolerance at km
PairsWithin(prev_df, curr_df, km) ==
  Cardinality({ ij \in (1..Len(prev_df)) \X (1..Len(curr_df)) :
                  Abs(Arrival(start_prev, prev_df[ij[1]].pace, km)
                      - Arrival(start_curr, curr_df[ij[2]].pace, km)) * 60
                    <= time_window_secs * 10 })

\* the sum of PairsWithin over the km in the set S, each km once
RECURSIVE SumPairs(_, _, _)
SumPairs(prev_df, curr_df, S) ==
  IF S = {} THEN 0
  ELSE LET km == CHOOSE x \in S : TRUE
       IN PairsWithin(prev_df, curr_df, km) + SumPairs(prev_df, curr_df, S \ {km})

\* the set of the km in a sequence
KmSet(kms) == { kms[i] : i \in 1..Len(kms) }

\* C23: cumulative_overlap_events is the sum, over the km points of the scan with
\* each km point taken once, of the number of (prev runner, curr runner) pairs with
\* |time_prev - time_curr| * 60 <= time_window_secs at that km: a pair within
\* tolerance at n sampled km contributes n.  The runners of the bridge's fine scan
\* are those the pre-filter left, its km those of the refined array.
C23_CumulativeCountsEveryKm ==
  /\ ("bridge" \in called /\ ~res_bridge.is_none) =>
       res_bridge.cumulative_overlap_events =
         SumPairs(Filtered[1], Filtered[2], KmSet(BridgeFineKms(Filtered[1], Filtered[2])))
  /\ ("brute" \in called /\ ~res_brute.is_none) =>
       res_brute.cumulative_overlap_events =
         SumPairs(prev_rows, curr_rows, KmSet(arange(seg_start_km, seg_end_km, step_km)))

\* one pair only, within tolerance at several km of a fine scan built from more
\* than one candidate interval
C23_Witness ==
  /\ {"bridge", "brute"} \subseteq called
  /\ ~res_bridge.is_none /\ ~res_brute.is_none
  /\ res_bridge.unique_overlapping_pairs = 1
  /\ res_bridge.cumulative_overlap_events >= 3
  /\ res_brute.cumulative_overlap_events = res_bridge.cumulative_overlap_events
  /\ Len(ClippedRanges) >= 2

\* ---------------------------------------------------------- cache.LRUCacheTTL
\* Time is in whole seconds.  A call's return value is << >> for None and <<v>> for
\* the value v; the value given to a set is the number of the call, so that every
\* set stores a value of its own.
Keys == {"a", "b", "c"}
CapacityArgs == {0, 1, 2}
TtlArgs == {0, 2}

\* the position of key in the store, 0 when it is absent
Find(st, key) ==
  IF \E i \in 1..Len(st) : st[i].key = key
  THEN CHOOSE i \in 1..Len(st) : st[i].key = key
  ELSE 0

\* the store without its entry at position i
Remove(st, i) == SubSeq(st, 1, i - 1) \o SubSeq(st, i + 1, Len(st))

\* _store.move_to_end(key)
MoveToEnd(st, i) == Append(Remove(st, i), st[i])

\* mutant of Evict: nothing is evicted
EvictNever(st, cap) == st

\* while len(self._store) > self.capacity: self._store.popitem(last=False)
RECURSIVE Evict(_, _)
Evict(st, cap) == IF Len(st) > cap THEN Evict(Tail(st), cap) ELSE st

\* mutant of CacheGet: the entry is returned whatever its expiry
CacheGetIgnoresExpiry(st, key, t) ==
  LET i == Find(st, key)
  IN IF i = 0 THEN [store |-> st, ret |-> << >>]
     ELSE [store |-> MoveToEnd(st, i), ret |-> <<st[i].value>>]

\* mutant of CacheGet: a successful get leaves the entry where it is
CacheGetNoRefresh(st, key, t) ==
  LET i == Find(st, key)
  IN IF i = 0 THEN [store |-> st, ret |-> << >>]
     ELSE IF st[i].expires_at >= t THEN [store |-> st, ret |-> <<st[i].value>>]
     ELSE [store |-> Remove(st, i), ret |-> << >>]

\* LRUCacheTTL.get at time t: the store afterwards and the return value
CacheGet(st, key, t) ==
  LET i == Find(st, key)
  IN IF i = 0 THEN [store |-> st, ret |-> << >>]
     ELSE IF st[i].expires_at >= t THEN [store |-> MoveToEnd(st, i), ret |-> <<st[i].value>>]
     ELSE [store |-> Remove(st, i), ret |-> << >>]

\* LRUCacheTTL.set at time t: the store afterwards
CacheSet(st, key, value, t, ttl_s, cap) ==
  LET i == Find(st, key)
      entry == [key |-> key, expires_at |-> t + ttl_s, value |-> value]
      assigned == IF i = 0 THEN Append(st, entry) ELSE [st EXCEPT ![i] = entry]
  IN Evict(MoveToEnd(assigned, Find(assigned, key)), cap)

\* the keys in the store
StoreKeys(st) == { st[i].key : i \in 1..Len(st) }

\* keys in the order of their most recent set or successful get, oldest first
Touch(recency, key) ==
  LET other(k) == k # key IN Append(SelectSeq(recency, other), key)

\* LRUCacheTTL(capacity, ttl_seconds).  history records the constructor arguments,
\* the last call with its return value and the keys it evicted, the time of the
\* most recent set of every key (-1 before the first), and the keys in the order
\* of their most recent set or successful get.
InitCache ==
  /\ OverlapIdle
  /\ DensityIdle
  /\ ApiIdle
  /\ \E c \in CapacityArgs, s \in TtlArgs :
       /\ capacity = Max(1, c)
       /\ ttl = Max(1, s)
       /\ history = [args |-> <<c, s>>,
                     last |-> [op |-> "init", key |-> "", at |-> 0, ret |-> << >>, evicted |-> {}],
                     set_at |-> [k \in Keys |-> -1],
                     recency |-> << >>]
  /\ store = << >>
  /\ now = 0

CallGet(key) ==
  /\ \E res \in { CacheGet(store, key, now) } :
       /\ store' = res.store
       /\ history' = [history EXCEPT
            !.last = [op |-> "get", key |-> key, at |-> now, ret |-> res.ret, evicted |-> {}],
            !.recency = IF res.ret # << >> THEN Touch(@, key) ELSE @]
  /\ UNCHANGED <<detVars, sumVars, densVars, apiVars, capacity, ttl, now>>

\* the value stored is the time of the call
CallSet(key) ==
  /\ store' = CacheSet(store, key, now, now, ttl, capacity)
  /\ history' = [history EXCEPT
       !.last = [op |-> "set", key |-> key, at |-> now, ret |-> << >>,
                 evicted |-> (StoreKeys(store) \cup {key}) \ StoreKeys(store')],
       !.set_at[key] = now,
       !.recency = Touch(@, key)]
  /\ UNCHANGED <<detVars, sumVars, densVars, apiVars, capacity, ttl, now>>

\* time passes between two calls
Tick ==
  /\ now < MaxNow
  /\ now' = now + 1
  /\ UNCHANGED <<detVars, sumVars, densVars, apiVars, capacity, ttl, store, history>>

NextCache ==
  \/ \E key \in Keys : CallGet(key)
  \/ \E key \in Keys : CallSet(key)
  \/ Tick

SpecCache == InitCache /\ [][NextCache]_vars

\* ---------------------------------------------------------- cache claims
\* C24: after any sequence of get and set calls the number of stored entries is at
\* most capacity, and capacity is the constructor argument coerced to at least 1.
C24_SizeAtMostCapacity ==
  history # << >> =>
    /\ capacity = Max(1, history.args[1])
    /\ capacity >= 1
    /\ Len(store) <= capacity
    /\ Cardinality(StoreKeys(store)) = Len(store)

\* a cache built with capacity 0 is full with one entry: a set of a second key
\* has evicted the first
C24_Witness ==
  /\ history # << >>
  /\ history.args[1] = 0
  /\ history.last.op = "set"
  /\ history.last.evicted # {}
  /\ Len(store) = 1

\* C25: a get returns a value only if the key was set and the time of the get is
\* not later than the time of the most recent set + ttl, and the value is the one
\* of that set; a get after expiry returns None and removes the entry, and with it
\* every later get, until the key is set again; every stored entry expires at the
\* time of the most recent set of its key + ttl, so a successful get does not
\* extend the expiry and a set on an existing key does.
C25_GetWithinTtlOfLastSet ==
  history # << >> =>
    /\ ttl = Max(1, history.args[2])
    /\ \A i \in 1..Len(store) :
         store[i].expires_at = history.set_at[store[i].key] + ttl
    /\ history.last.op = "get" =>
         /\ history.last.ret # << >> =>
              /\ history.set_at[history.last.key] >= 0
              /\ history.last.at <= history.set_at[history.last.key] + ttl
              /\ history.last.ret = << history.set_at[history.last.key] >>
              /\ history.last.key \in StoreKeys(store)
         /\ history.last.at > history.set_at[history.last.key] + ttl =>
              /\ history.last.ret = << >>
              /\ history.last.key \notin StoreKeys(store)

\* a get at exactly set time + ttl, some time after the set, has returned the value
C25_Witness ==
  /\ history # << >>
  /\ history.last.op = "get"
  /\ history.last.ret # << >>
  /\ history.last.at = history.set_at[history.last.key] + ttl
  /\ Len(store) = 2

\* C26: a set never evicts the key it sets; it evicts nothing while the entries
\* fit in capacity, and otherwise the entries whose most recent set or successful
\* get is oldest, so that an entry refreshed by a successful get outlives the
\* entries not touched since; the store is kept in the order of recency.
C26_EvictsLeastRecentlyUsed ==
  [][ (history # << >> /\ history' # history /\ history'.last.op = "set") =>
        \A key \in { history'.last.key } :
          \A before \in { SelectSeq(history.recency,
                                    LAMBDA k : k \in StoreKeys(store) /\ k # key) } :
            /\ key \in StoreKeys(store')
            /\ history'.last.evicted =
                 { before[i] : i \in 1..(Len(before) + 1 - capacity) }
            /\ [i \in 1..Len(store') |-> store'[i].key]
                 = SubSeq(Append(before, key), Len(before) + 2 - Min(capacity, Len(before) + 1),
                          Len(before) + 1)
    ]_vars

\* a set has evicted a key that was set later than a key that stays: the one that
\* stays was refreshed by a get in between
C26_Witness ==
  /\ history # << >>
  /\ history.last.op = "set"
  /\ \E e \in history.last.evicted :
       \E i \in 1..Len(store) :
         /\ store[i].key # history.last.key
         /\ history.set_at[store[i].key] < history.set_at[e]

\* ---------------------------------------------------------- engine.analyze_overlaps claims
\* C27: for schema-valid pace and overlaps inputs in which at least one overlap
\* row has both of its events in start_times, engine.analyze_overlaps does not
\* raise and returns its summary.
C27_EngineDoesNotRaise ==
  (pc # "load" /\ ~MissingRequired /\ \E k \in 1..Len(overlaps) : KnownRow(overlaps[k])) =>
    /\ engine_out.raised = "none"
    /\ "summary_df" \in DOMAIN engine_out

\* ---------------------------------------------------------- pre-filter claims
\* C28: the interval pre-filter of the coarse-to-fine detector keeps every prev
\* runner and every curr runner that is within time_window_secs of a runner of
\* the other event at some sampled km of the segment, single-point segments
\* (seg_start_km = seg_end_km) included.
C28_PreFilterKeepsHitRunners ==
  ("bridge" \in called /\ prev_rows # << >> /\ curr_rows # << >>) =>
    \A km \in SampledKms :
      \A i \in 1..Len(prev_rows), j \in 1..Len(curr_rows) :
        Abs(Diff(prev_rows[i], curr_rows[j], km)) * 60 <= time_window_secs * 10 =>
          /\ \E m \in 1..Len(Filtered[1]) : Filtered[1][m] = prev_rows[i]
          /\ \E n \in 1..Len(Filtered[2]) : Filtered[2][n] = curr_rows[j]
          /\ ~res_bridge.is_none
          /\ res_bridge.total_prev = Len(Filtered[1])
          /\ res_bridge.total_curr = Len(Filtered[2])

\* ---------------------------------------------------------- joint-zero claims
\* the four outputs are all zero or all non-zero
JointlyZero(cumulative, first, peak, pairs) ==
  /\ (cumulative = 0) <=> (first = << >>)
  /\ (cumulative = 0) <=> (peak = 0)
  /\ (cumulative = 0) <=> (pairs = 0)

\* the coarse km of the call in the state at which some pair is within tolerance
CoarseCandidates ==
  Candidates(Filtered[1], Filtered[2], start_prev, start_curr, seg_start_km, seg_end_km,
             time_window_secs, step_km * coarse_factor)

\* C29: in every non-None detection result cumulative_overlap_events = 0 iff
\* first_overlap is None iff peak_congestion = 0 iff unique_overlapping_pairs = 0;
\* and when the coarse scan finds a candidate km, the fine scan samples every
\* candidate km and cumulative_overlap_events >= 1.
C29_OutputsJointlyZero ==
  /\ ("bridge" \in called /\ ~res_bridge.is_none) =>
       /\ JointlyZero(res_bridge.cumulative_overlap_events, res_bridge.first_overlap,
                      res_bridge.peak_congestion, res_bridge.unique_overlapping_pairs)
       /\ \A cand \in { CoarseCandidates } :
            cand # << >> =>
              /\ KmSet(cand) \subseteq KmSet(BridgeFineKms(Filtered[1], Filtered[2]))
              /\ res_bridge.cumulative_overlap_events >= 1
  /\ ("brute" \in called /\ ~res_brute.is_none) =>
       JointlyZero(res_brute.cumulative_overlap_events, res_brute.first_overlap,
                   res_brute.peak_congestion, res_brute.unique_overlapping_pairs)
  /\ "engine" \in called =>
       JointlyZero(res_engine.cumulative, res_engine.first_overlap,
                   res_engine.peak_cong, res_engine.unique_pairs)

\* two candidate km, the second the end of the segment, and a non-zero result in
\* all three detectors
C29_Witness ==
  /\ called = {"bridge", "brute", "engine"}
  /\ ~res_bridge.is_none /\ ~res_brute.is_none
  /\ Len(CoarseCandidates) >= 2
  /\ res_bridge.cumulative_overlap_events >= 2
  /\ res_bridge.first_overlap # << >>
  /\ res_brute.peak_congestion >= 2
  /\ res_engine.unique_pairs >= 1

\* ---------------------------------------------------------- start_times claims
\* other start_times maps: none at all, the two events ten hours apart, event A omitted
OtherStartTimes ==
  { << >>, ("A" :> 0) @@ ("B" :> 600), ("B" :> 20) }

\* C30: the DensityStep sequence compute_density_steps returns is the same for
\* every start_times map, maps that omit an event included: counts, combined count
\* and densities do not depend on the start times.  Stated where the call has
\* just returned; density_steps does not change afterwards.
C30_StepsIgnoreStartTimes ==
  (dpc = "rollup" /\ density_in # << >>) =>
    \A st \in OtherStartTimes :
      compute_density_steps(density_in.pace_df, density_in.seg, st,
                            density_in.step_km, density_in.window_s) = density_steps

\* a segment of two events, each with runners, and two runners of A of different
\* pace counted together at some km
C30_Witness ==
  /\ dpc = "rollup" /\ density_in # << >>
  /\ density_in.seg.event_b = "B"
  /\ \E n \in 1..Len(density_steps) :
       /\ density_steps[n].km > 0
       /\ density_steps[n].counts["A"] = 2
       /\ density_steps[n].counts["B"] >= 1
  /\ \E i, j \in 1..Len(density_in.pace_df) :
       /\ density_in.pace_df[i].event = "A" /\ density_in.pace_df[j].event = "A"
       /\ density_in.pace_df[i].pace # density_in.pace_df[j].pace

====
